---- MODULE Spec2Model ----
(***************************************************************************)
(* Client-side reconciliation of one shared activity (ratings, comments,  *)
(* participants) in ActivityPage: snapshot load plus the five push-event   *)
(* handlers registered on the webSocketService.                            *)
(*                                                                         *)
(*   Spec      the view under arbitrary push events                        *)
(*   SpecAlg   two consecutive deliveries on a loaded activity, with the   *)
(*             result of the opposite delivery order kept alongside        *)
(*   SpecSync  the view together with the server document, the getActivity *)
(*             answer and the FIFO push channel                            *)
(*   SpecPage  one page view from mount to teardown: effects, connection,  *)
(*             listener registration, gestures and local handlers          *)
(***************************************************************************)
EXTENDS Integers, Sequences, FiniteSets, TLC

\* ------------------------------------------------------------------ data

\* JavaScript null / undefined.
Null == [null |-> TRUE]

\* userId values; "" is the initial useState('') value.
Users == {"a", "b"}

\* Rating.position values, axis-normalised coordinates.
Positions == {[x |-> 0, y |-> 0], [x |-> 2, y |-> 2]}

\* Rating entities carried by rating_added and by snapshots: user "a" may sit
\* at either position, user "b" at one.
Ratings ==
  {r \in [userId : Users, position : Positions] :
     r.userId = "b" => r.position = [x |-> 2, y |-> 2]}

\* Server-assigned comment ids.
CommentIds == {"c1", "c2", "c3"}

\* A comment belongs to exactly one participant: the author of an id is fixed.
CommentOwner == [id \in CommentIds |-> IF id = "c3" THEN "b" ELSE "a"]

Texts == {"hi", "bye"}

VoteCounts == {0, 3}

\* Comment entities carried by comment_added / comment_voted and by snapshots:
\* user "a" writes either text under either of two ids, user "b" writes "hi".
Comments ==
  {c \in [id : CommentIds, userId : Users, text : Texts, voteCount : VoteCounts] :
     /\ CommentOwner[c.id] = c.userId
     /\ c.userId = "b" => c.text = "hi"}

ParticipantIds == {"p1", "p2"}

Names == {"Ann", "Bob"}

\* Participant entities carried by participant_joined and by snapshots: "p1"
\* may change its display name, "p2" keeps one.
Participants ==
  {p \in [id : ParticipantIds, name : Names] : p.id = "p2" => p.name = "Bob"}

\* Lists over S of length at most n.
SeqsUpTo(S, n) == UNION {[1..k -> S] : k \in 0..n}

\* No two entries of the list s agree on the key.
UniqueBy(s, key(_)) ==
  \A i, j \in DOMAIN s : i # j => key(s[i]) # key(s[j])

UserIdOf(e) == e.userId

IdOf(e) == e.id

\* Activity documents the backing API returns from getActivity: one rating and
\* one comment per userId, participants unique by id.
Snapshots ==
  {[ratings |-> rs, comments |-> cs, participants |-> ps] :
     rs \in {s \in SeqsUpTo(Ratings, Cardinality(Users)) : UniqueBy(s, UserIdOf)},
     cs \in {s \in SeqsUpTo(Comments, Cardinality(Users)) : UniqueBy(s, UserIdOf)},
     ps \in {s \in SeqsUpTo(Participants, Cardinality(ParticipantIds)) : UniqueBy(s, IdOf)}}

\* ----------------------------------------------------------------- state

VARIABLES
  activity,      \* useState<WeAllExplainActivity | null>(null)
  loading,       \* useState(true)
  error,         \* useState<string | null>(null)
  userId,        \* useState<string>('')
  userRating,    \* useState<Rating | null>(null)
  userComment,   \* useState<Comment | null>(null)
  loadPc,        \* position of the loadActivity call: "idle", "await", "done"
  lastEvent,     \* name of the step taken last (history)
  sync,          \* the server side: document, response and events in flight
  alg,           \* two deliveries in both orders: the events and the results
  page,          \* the mounted view: connection, listeners and calls in flight
  results,       \* ResultsView: its component state and what it last computed
  call,          \* one service call: the response it meets and its outcome
  nav,           \* screen navigation: currentScreen
  mw             \* the middleware: the request it is given and its answer

viewVars == <<activity, loading, error, userId, userRating, userComment, loadPc>>

vars ==
  <<activity, loading, error, userId, userRating, userComment, loadPc, lastEvent,
    sync, alg, page, results, call, nav, mw>>

LoadError == [message |-> "Failed to load activity. Please try again."]

\* --------------------------------------------------- array helpers (JS)

\* Array.prototype.find: first element satisfying the test, or undefined.
Find(s, Test(_)) ==
  IF \E i \in DOMAIN s : Test(s[i])
  THEN s[CHOOSE i \in DOMAIN s : Test(s[i]) /\ \A j \in 1..(i - 1) : ~Test(s[j])]
  ELSE Null

\* Array.prototype.findIndex: 0-based index of the first match, or -1.
FindIndex(s, Test(_)) ==
  IF \E i \in DOMAIN s : Test(s[i])
  THEN (CHOOSE i \in DOMAIN s : Test(s[i]) /\ \A j \in 1..(i - 1) : ~Test(s[j])) - 1
  ELSE -1

\* Array.prototype.map.
Map(s, F(_)) == [i \in DOMAIN s |-> F(s[i])]

\* ------------------------------------------- setActivity updater functions

\* Mutant: first write wins, a resubmission by the same user is ignored.
applyRatingAdded_KeepOld(prev, rating) ==
  IF prev = Null THEN Null
  ELSE IF \E i \in DOMAIN prev.ratings : prev.ratings[i].userId = rating.userId
       THEN prev
       ELSE [prev EXCEPT !.ratings = Append(prev.ratings, rating)]

\* Mutant: the push without the filter on userId.
applyRatingAdded_NoFilter(prev, rating) ==
  IF prev = Null THEN Null
  ELSE [prev EXCEPT !.ratings = Append(prev.ratings, rating)]

\* Mutant: a new rating also discards the sender's comment.
applyRatingAdded_ClearsComment(prev, rating) ==
  IF prev = Null THEN Null
  ELSE [prev EXCEPT
          !.ratings = Append(SelectSeq(@, LAMBDA r : r.userId # rating.userId), rating),
          !.comments = SelectSeq(@, LAMBDA c : c.userId # rating.userId)]

\* rating_added: drop the sender's old rating, push the new one.
applyRatingAdded(prev, rating) ==
  IF prev = Null THEN Null
  ELSE LET updatedRatings ==
             Append(SelectSeq(prev.ratings, LAMBDA r : r.userId # rating.userId), rating)
       IN [prev EXCEPT !.ratings = updatedRatings]

\* Mutant: the eviction branch pushes without filtering the sender's comment.
applyCommentAdded_NoEvict(prev, comment) ==
  IF prev = Null THEN Null
  ELSE LET existingCommentIndex ==
             FindIndex(prev.comments,
                       LAMBDA c : c.userId = comment.userId /\ c.text = comment.text)
       IN IF existingCommentIndex >= 0
          THEN [prev EXCEPT !.comments[existingCommentIndex + 1] = comment]
          ELSE [prev EXCEPT !.comments = Append(prev.comments, comment)]

\* Mutant: no (userId, text) dedup, every comment is evicted and pushed.
applyCommentAdded_AlwaysPush(prev, comment) ==
  IF prev = Null THEN Null
  ELSE [prev EXCEPT !.comments =
          Append(SelectSeq(prev.comments, LAMBDA c : c.userId # comment.userId),
                 comment)]

\* Mutant: the eviction branch drops every stored comment, not only the
\* sender's.
applyCommentAdded_EvictAll(prev, comment) ==
  IF prev = Null THEN Null
  ELSE LET existingCommentIndex ==
             FindIndex(prev.comments,
                       LAMBDA c : c.userId = comment.userId /\ c.text = comment.text)
       IN IF existingCommentIndex >= 0
          THEN [prev EXCEPT !.comments[existingCommentIndex + 1] = comment]
          ELSE [prev EXCEPT !.comments = <<comment>>]

\* comment_added: replace in place on a (userId, text) match, else evict the
\* sender's old comment and push.
applyCommentAdded(prev, comment) ==
  IF prev = Null THEN Null
  ELSE LET existingCommentIndex ==
             FindIndex(prev.comments,
                       LAMBDA c : c.userId = comment.userId /\ c.text = comment.text)
       IN IF existingCommentIndex >= 0
          THEN [prev EXCEPT !.comments[existingCommentIndex + 1] = comment]
          ELSE [prev EXCEPT !.comments =
                  Append(SelectSeq(prev.comments, LAMBDA c : c.userId # comment.userId),
                         comment)]

\* Mutant: the client counts the vote itself instead of taking the server's
\* count.
applyCommentVoted_Increment(prev, comment) ==
  IF prev = Null THEN prev
  ELSE [prev EXCEPT !.comments =
          Map(prev.comments,
              LAMBDA c : IF c.id = comment.id
                         THEN [comment EXCEPT !.voteCount = c.voteCount + 1]
                         ELSE c)]

\* Mutant: the vote is matched on the author instead of the comment id.
applyCommentVoted_ByUser(prev, comment) ==
  IF prev = Null THEN prev
  ELSE [prev EXCEPT !.comments =
          Map(prev.comments,
              LAMBDA c : IF c.userId = comment.userId THEN comment ELSE c)]

\* Mutant: a vote on a comment that is not stored inserts it.
applyCommentVoted_Upsert(prev, comment) ==
  IF prev = Null THEN prev
  ELSE IF \E i \in DOMAIN prev.comments : prev.comments[i].id = comment.id
       THEN [prev EXCEPT !.comments =
               Map(prev.comments, LAMBDA c : IF c.id = comment.id THEN comment ELSE c)]
       ELSE [prev EXCEPT !.comments = Append(prev.comments, comment)]

\* comment_voted: replace every stored comment with the incoming id.
applyCommentVoted(prev, comment) ==
  IF prev = Null THEN prev
  ELSE [prev EXCEPT !.comments =
          Map(prev.comments, LAMBDA c : IF c.id = comment.id THEN comment ELSE c)]

\* Mutant: the push without the filter on id.
applyParticipantJoined_NoFilter(prev, participant) ==
  IF prev = Null THEN Null
  ELSE [prev EXCEPT !.participants = Append(prev.participants, participant)]

\* Mutant: the filter keeps the joining id instead of dropping it.
applyParticipantJoined_InvertedFilter(prev, participant) ==
  IF prev = Null THEN Null
  ELSE [prev EXCEPT !.participants =
          Append(SelectSeq(prev.participants, LAMBDA p : p.id = participant.id),
                 participant)]

\* participant_joined: upsert by id.
applyParticipantJoined(prev, participant) ==
  IF prev = Null THEN Null
  ELSE [prev EXCEPT !.participants =
          Append(SelectSeq(prev.participants, LAMBDA p : p.id # participant.id),
                 participant)]

\* Mutant: when the id is not in the roster the oldest participant is dropped.
applyParticipantLeft_DropsOldest(prev, participantId) ==
  IF prev = Null THEN Null
  ELSE IF \E i \in DOMAIN prev.participants : prev.participants[i].id = participantId
       THEN [prev EXCEPT !.participants =
               SelectSeq(prev.participants, LAMBDA p : p.id # participantId)]
       ELSE [prev EXCEPT !.participants =
               IF prev.participants = << >> THEN << >> ELSE Tail(prev.participants)]

\* participant_left: remove by id.
applyParticipantLeft(prev, participantId) ==
  IF prev = Null THEN Null
  ELSE [prev EXCEPT !.participants =
          SelectSeq(prev.participants, LAMBDA p : p.id # participantId)]

\* ---------------------------------------------------------------- actions

\* History: the step taken last and the path the handler took.
Step(name, branch) == [name |-> name, branch |-> branch]

\* No event.
NoEvent == [name |-> "none", payload |-> Null]

\* The view right after the first render.
InitView ==
  /\ activity = Null
  /\ loading = TRUE
  /\ error = Null
  /\ userId = ""
  /\ userRating = Null
  /\ userComment = Null
  /\ loadPc = "idle"
  /\ lastEvent = Step("none", "-")

\* The server side is not part of the run.
SyncOff == [pc |-> "off"]

\* No two-delivery experiment is part of the run.
AlgOff == [pc |-> "off"]

\* The connection, the listeners and the local handlers are not part of the
\* run.
PageOff == [pc |-> "off"]

\* ResultsView is not part of the run.
ResultsOff == [pc |-> "off"]

\* No service call is part of the run.
CallOff == [pc |-> "off"]

\* Screen navigation is not part of the run.
NavOff == [pc |-> "off"]

\* No request reaches the middleware in the run.
MwOff == [pc |-> "off"]

Init ==
  /\ InitView
  /\ sync = SyncOff
  /\ alg = AlgOff
  /\ page = PageOff
  /\ results = ResultsOff
  /\ call = CallOff
  /\ nav = NavOff
  /\ mw = MwOff

\* Session effect: the stored or freshly generated identity becomes userId.
initSession ==
  /\ userId = ""
  /\ \E storedUserId \in {"b"} : userId' = storedUserId
  /\ lastEvent' = Step("initSession", "-")
  /\ UNCHANGED <<activity, loading, error, userRating, userComment, loadPc>>

\* loadActivity up to the await of getActivity.
loadActivity ==
  /\ userId # ""
  /\ loadPc = "idle"
  /\ loading' = TRUE
  /\ error' = Null
  /\ loadPc' = "await"
  /\ lastEvent' = Step("loadActivity", "-")
  /\ UNCHANGED <<activity, userId, userRating, userComment>>

\* getActivity resolved with activityData.
loadActivityResolved(activityData) ==
  /\ loadPc = "await"
  /\ activity' = activityData
  /\ LET existingRating == Find(activityData.ratings, LAMBDA r : r.userId = userId)
         existingComment == Find(activityData.comments, LAMBDA c : c.userId = userId)
     IN /\ userRating' = IF existingRating # Null THEN existingRating ELSE userRating
        /\ userComment' = IF existingComment # Null THEN existingComment ELSE userComment
  /\ loading' = FALSE
  /\ loadPc' = "done"
  /\ lastEvent' = Step("loadActivityResolved", "-")
  /\ UNCHANGED <<error, userId>>

\* Mutant: the catch without the finally, loading is never cleared.
loadActivityRejected_NoFinally ==
  /\ loadPc = "await"
  /\ error' = LoadError
  /\ loadPc' = "done"
  /\ lastEvent' = Step("loadActivityRejected", "-")
  /\ UNCHANGED <<activity, loading, userId, userRating, userComment>>

\* getActivity threw.
loadActivityRejected ==
  /\ loadPc = "await"
  /\ error' = LoadError
  /\ loading' = FALSE
  /\ loadPc' = "done"
  /\ lastEvent' = Step("loadActivityRejected", "-")
  /\ UNCHANGED <<activity, userId, userRating, userComment>>

\* The push channel delivers only after connect, which needs a userId.
Delivering == userId # ""

rating_added(rating) ==
  /\ Delivering
  /\ activity' = applyRatingAdded(activity, rating)
  /\ userRating' = IF rating.userId = userId THEN rating ELSE userRating
  /\ lastEvent' = Step("rating_added",
                       IF activity = Null THEN "dropped"
                       ELSE IF \E i \in DOMAIN activity.ratings :
                                  activity.ratings[i].userId = rating.userId
                            THEN "replaced" ELSE "pushed")
  /\ UNCHANGED <<loading, error, userId, userComment, loadPc>>

comment_added(comment) ==
  /\ Delivering
  /\ activity' = applyCommentAdded(activity, comment)
  /\ userComment' = IF comment.userId = userId THEN comment ELSE userComment
  /\ lastEvent' = Step("comment_added",
                       IF activity = Null THEN "dropped"
                       ELSE IF \E i \in DOMAIN activity.comments :
                                  /\ activity.comments[i].userId = comment.userId
                                  /\ activity.comments[i].text = comment.text
                            THEN "replaced"
                            ELSE IF \E i \in DOMAIN activity.comments :
                                       activity.comments[i].userId = comment.userId
                                 THEN "evicted" ELSE "pushed")
  /\ UNCHANGED <<loading, error, userId, userRating, loadPc>>

comment_voted(comment) ==
  /\ Delivering
  /\ activity' = applyCommentVoted(activity, comment)
  /\ lastEvent' = Step("comment_voted",
                       IF activity = Null THEN "dropped"
                       ELSE IF \E i \in DOMAIN activity.comments :
                                  activity.comments[i].id = comment.id
                            THEN "replaced" ELSE "unmatched")
  /\ UNCHANGED <<loading, error, userId, userRating, userComment, loadPc>>

participant_joined(participant) ==
  /\ Delivering
  /\ activity' = applyParticipantJoined(activity, participant)
  /\ lastEvent' = Step("participant_joined",
                       IF activity = Null THEN "dropped"
                       ELSE IF \E i \in DOMAIN activity.participants :
                                  activity.participants[i].id = participant.id
                            THEN "replaced" ELSE "pushed")
  /\ UNCHANGED <<loading, error, userId, userRating, userComment, loadPc>>

participant_left(participantId) ==
  /\ Delivering
  /\ activity' = applyParticipantLeft(activity, participantId)
  /\ lastEvent' = Step("participant_left",
                       IF activity = Null THEN "dropped"
                       ELSE IF \E i \in DOMAIN activity.participants :
                                  activity.participants[i].id = participantId
                            THEN "removed" ELSE "absent")
  /\ UNCHANGED <<loading, error, userId, userRating, userComment, loadPc>>

\* The five event names the listeners effect registers.
EventNames ==
  {"rating_added", "comment_added", "comment_voted", "participant_joined",
   "participant_left"}

\* Events as the channel carries them: a name and the full entity.
Events ==
  {[name |-> "rating_added", payload |-> r] : r \in Ratings}
    \cup {[name |-> "comment_added", payload |-> c] : c \in Comments}
    \cup {[name |-> "comment_voted", payload |-> c] : c \in Comments}
    \cup {[name |-> "participant_joined", payload |-> p] : p \in Participants}
    \cup {[name |-> "participant_left", payload |-> id] : id \in ParticipantIds}

\* webSocketService hands an event to the handler registered under its name.
emit(e) ==
  \/ e.name = "rating_added" /\ rating_added(e.payload)
  \/ e.name = "comment_added" /\ comment_added(e.payload)
  \/ e.name = "comment_voted" /\ comment_voted(e.payload)
  \/ e.name = "participant_joined" /\ participant_joined(e.payload)
  \/ e.name = "participant_left" /\ participant_left(e.payload)

\* The setActivity updater the handler of the event runs.
applyEvent(prev, e) ==
  CASE e.name = "rating_added" -> applyRatingAdded(prev, e.payload)
    [] e.name = "comment_added" -> applyCommentAdded(prev, e.payload)
    [] e.name = "comment_voted" -> applyCommentVoted(prev, e.payload)
    [] e.name = "participant_joined" -> applyParticipantJoined(prev, e.payload)
    [] e.name = "participant_left" -> applyParticipantLeft(prev, e.payload)

Next ==
  \/ initSession /\ UNCHANGED <<sync, alg, page, results, call, nav, mw>>
  \/ loadActivity /\ UNCHANGED <<sync, alg, page, results, call, nav, mw>>
  \/ \E activityData \in Snapshots :
       loadActivityResolved(activityData) /\ UNCHANGED <<sync, alg, page, results, call, nav, mw>>
  \/ loadActivityRejected /\ UNCHANGED <<sync, alg, page, results, call, nav, mw>>
  \/ \E rating \in Ratings : rating_added(rating) /\ UNCHANGED <<sync, alg, page, results, call, nav, mw>>
  \/ \E comment \in Comments : comment_added(comment) /\ UNCHANGED <<sync, alg, page, results, call, nav, mw>>
  \/ \E comment \in Comments : comment_voted(comment) /\ UNCHANGED <<sync, alg, page, results, call, nav, mw>>
  \/ \E participant \in Participants :
       participant_joined(participant) /\ UNCHANGED <<sync, alg, page, results, call, nav, mw>>
  \/ \E participantId \in ParticipantIds :
       participant_left(participantId) /\ UNCHANGED <<sync, alg, page, results, call, nav, mw>>

Spec == Init /\ [][Next]_vars

\* ------------------------------------- two deliveries on a loaded activity

\* The view after loadActivity has installed a snapshot.
InitAlg ==
  /\ activity \in Snapshots
  /\ loading = FALSE
  /\ error = Null
  /\ userId = "b"
  /\ userRating = Find(activity.ratings, LAMBDA r : r.userId = userId)
  /\ userComment = Find(activity.comments, LAMBDA c : c.userId = userId)
  /\ loadPc = "done"
  /\ lastEvent = Step("loadActivityResolved", "-")
  /\ sync = SyncOff
  /\ page = PageOff
  /\ results = ResultsOff
  /\ call = CallOff
  /\ nav = NavOff
  /\ mw = MwOff
  /\ alg = [pc |-> "start", base |-> activity, mid |-> Null, swapped |-> Null,
            e1 |-> NoEvent, e2 |-> NoEvent]

\* The channel delivers a first event.
deliverFirst(e) ==
  /\ alg.pc = "start"
  /\ emit(e)
  /\ alg' = [alg EXCEPT !.pc = "one", !.e1 = e]
  /\ UNCHANGED <<sync, page, results, call, nav, mw>>

\* The channel delivers a second event; the result of delivering the same two
\* events in the other order is computed alongside.
deliverSecond(e) ==
  /\ alg.pc = "one"
  /\ emit(e)
  /\ alg' = [alg EXCEPT !.pc = "two", !.e2 = e, !.mid = activity,
                        !.swapped = applyEvent(applyEvent(alg.base, e), alg.e1)]
  /\ UNCHANGED <<sync, page, results, call, nav, mw>>

NextAlg ==
  \/ \E e \in Events : deliverFirst(e)
  \/ \E e \in Events : deliverSecond(e)

SpecAlg == InitAlg /\ [][NextAlg]_vars

\* ------------------------------------------- server, snapshot and channel

\* Mutations the server performs in a run.
MaxServerOps == 2

\* A document with one entry in each collection.
SeedDoc ==
  [ratings |-> <<[userId |-> "a", position |-> [x |-> 0, y |-> 0]]>>,
   comments |-> <<[id |-> "c1", userId |-> "a", text |-> "hi", voteCount |-> 0]>>,
   participants |-> <<[id |-> "p1", name |-> "Ann"]>>]

\* Documents the server holds when the page is opened.
SyncSeeds ==
  {[ratings |-> << >>, comments |-> << >>, participants |-> << >>], SeedDoc}

InitSync ==
  /\ InitView
  /\ alg = AlgOff
  /\ page = PageOff
  /\ results = ResultsOff
  /\ call = CallOff
  /\ nav = NavOff
  /\ mw = MwOff
  /\ \E doc \in SyncSeeds :
       sync = [pc |-> "on", server |-> doc, response |-> Null, channelOpen |-> FALSE,
               channel |-> << >>, nOps |-> 0, missed |-> FALSE]

\* webSocketService.connect resolves: the client is subscribed from now on.
connect ==
  /\ userId # ""
  /\ ~sync.channelOpen
  /\ sync' = [sync EXCEPT !.channelOpen = TRUE]
  /\ lastEvent' = Step("connect", "-")
  /\ UNCHANGED <<viewVars, alg, page, results, call, nav, mw>>

\* GET /api/activities/{id}: the server answers with its current document.
getActivity ==
  /\ loadPc = "await"
  /\ sync.response = Null
  /\ sync' = [sync EXCEPT !.response = sync.server]
  /\ lastEvent' = Step("getActivity", "-")
  /\ UNCHANGED <<viewVars, alg, page, results, call, nav, mw>>

\* The server applies a mutation and broadcasts the full entity to the
\* subscribed clients.
serverMutates(doc, e) ==
  /\ sync.nOps < MaxServerOps
  /\ sync' = [sync EXCEPT !.server = doc,
                          !.nOps = @ + 1,
                          !.channel = IF sync.channelOpen THEN Append(@, e) ELSE @,
                          !.missed = @ \/ ~sync.channelOpen]
  /\ lastEvent' = Step("server", e.name)
  /\ UNCHANGED <<viewVars, alg, page, results, call, nav, mw>>

\* POST /api/activities/{id}/rating: the user's rating replaces the old one.
submitRating(rating) ==
  serverMutates(
    [sync.server EXCEPT !.ratings =
       Append(SelectSeq(@, LAMBDA r : r.userId # rating.userId), rating)],
    [name |-> "rating_added", payload |-> rating])

\* POST /api/activities/{id}/comment: the user's comment replaces the old one
\* and starts without votes.
submitComment(comment) ==
  /\ comment.voteCount = 0
  /\ serverMutates(
       [sync.server EXCEPT !.comments =
          Append(SelectSeq(@, LAMBDA c : c.userId # comment.userId), comment)],
       [name |-> "comment_added", payload |-> comment])

\* POST /api/activities/{id}/comment/{commentId}/vote: one more vote.
voteComment(commentId) ==
  \E i \in DOMAIN sync.server.comments :
    /\ sync.server.comments[i].id = commentId
    /\ LET voted == [sync.server.comments[i] EXCEPT !.voteCount = @ + 1]
       IN serverMutates([sync.server EXCEPT !.comments[i] = voted],
                        [name |-> "comment_voted", payload |-> voted])

\* POST /api/activities/{id}/participants: upsert of the participant.
joinActivity(participant) ==
  serverMutates(
    [sync.server EXCEPT !.participants =
       Append(SelectSeq(@, LAMBDA p : p.id # participant.id), participant)],
    [name |-> "participant_joined", payload |-> participant])

\* A participant's channel closes: the server drops it from the roster.
leaveActivity(participantId) ==
  /\ \E i \in DOMAIN sync.server.participants :
       sync.server.participants[i].id = participantId
  /\ serverMutates(
       [sync.server EXCEPT !.participants =
          SelectSeq(@, LAMBDA p : p.id # participantId)],
       [name |-> "participant_left", payload |-> participantId])

\* The channel hands its oldest event to the registered handler.
deliver ==
  /\ sync.channel # << >>
  /\ emit(Head(sync.channel))
  /\ sync' = [sync EXCEPT !.channel = Tail(@)]
  /\ UNCHANGED <<alg, page, results, call, nav, mw>>

NextSync ==
  \/ initSession /\ UNCHANGED <<sync, alg, page, results, call, nav, mw>>
  \/ connect
  \/ loadActivity /\ UNCHANGED <<sync, alg, page, results, call, nav, mw>>
  \/ getActivity
  \/ sync.response # Null /\ loadActivityResolved(sync.response) /\ UNCHANGED <<sync, alg, page, results, call, nav, mw>>
  \/ loadActivityRejected /\ UNCHANGED <<sync, alg, page, results, call, nav, mw>>
  \/ \E rating \in Ratings : submitRating(rating)
  \/ \E comment \in Comments : submitComment(comment)
  \/ \E commentId \in CommentIds : voteComment(commentId)
  \/ \E participant \in Participants : joinActivity(participant)
  \/ \E participantId \in ParticipantIds : leaveActivity(participantId)
  \/ deliver

SpecSync == InitSync /\ [][NextSync]_vars

\* ------------------------------------------- one page view, mount to teardown

\* Calls of one kind (rating, comment, vote) that may be in flight at a time.
MaxInFlight == 2

\* The username the session effect reads from localStorage or generates.
StoredUsername == "Bea"

\* Activity.status.
Statuses == {"active", "completed"}

\* Documents getActivity answers with in a page view: an empty and a seeded
\* activity, each either open or closed.
PageDocs ==
  {[id |-> "act1", title |-> "Topic", mapQuestion |-> "Where?",
    commentQuestion |-> "Why?",
    xAxis |-> [label |-> "x", min |-> 0, max |-> 2],
    yAxis |-> [label |-> "y", min |-> 0, max |-> 2],
    status |-> st, ratings |-> d.ratings, comments |-> d.comments,
    participants |-> d.participants] : st \in Statuses, d \in SyncSeeds}

\* Events the channel delivers in a page view, one of each name.
PageEvents ==
  {[name |-> "rating_added",
    payload |-> [userId |-> "b", position |-> [x |-> 2, y |-> 2]]],
   [name |-> "comment_added",
    payload |-> [id |-> "c3", userId |-> "b", text |-> "hi", voteCount |-> 0]],
   [name |-> "comment_voted",
    payload |-> [id |-> "c1", userId |-> "a", text |-> "hi", voteCount |-> 3]],
   [name |-> "participant_joined", payload |-> [id |-> "p2", name |-> "Bob"]],
   [name |-> "participant_left", payload |-> "p1"]}

\* webSocketService.on: one more registration by the view under the name.
on(listeners, eventName) == [listeners EXCEPT ![eventName] = @ + 1]

\* webSocketService.off: no handler is left under the name.
off(listeners, eventName) == [listeners EXCEPT ![eventName] = 0]

\* webSocketService.disconnect: the channel is released, whatever its state.
disconnect(p) == [p EXCEPT !.socket = "closed", !.disconnects = @ + 1]

\* A state setter of the component: React drops it once the view is unmounted.
SetState(p, field, value) == IF p.mounted THEN [p EXCEPT ![field] = value] ELSE p

\* Body of the listeners effect: the five registrations.
listenersSetup(listeners) ==
  on(on(on(on(on(listeners, "rating_added"), "comment_added"), "comment_voted"),
        "participant_joined"), "participant_left")

\* Mutant: the cleanup forgets the comment_voted handler.
listenersCleanup_SkipsCommentVoted(listeners) ==
  off(off(off(off(listeners, "rating_added"), "comment_added"),
          "participant_joined"), "participant_left")

\* Cleanup of the listeners effect: the five names are unregistered.
listenersCleanup(listeners) ==
  off(off(off(off(off(listeners, "rating_added"), "comment_added"), "comment_voted"),
          "participant_joined"), "participant_left")

\* The view after the first commit: the session effect has run, loadActivity
\* and initializeWebSocket were skipped for want of a userId, and the handlers
\* are registered.
InitPage ==
  /\ InitView
  /\ sync = SyncOff
  /\ alg = AlgOff
  /\ page = [pc |-> "on", mounted |-> TRUE, username |-> "",
             isConnected |-> FALSE, isReconnecting |-> FALSE, isSubmitting |-> FALSE,
             renderedIsSubmitting |-> FALSE,
             wsPc |-> "idle", socket |-> "closed", disconnects |-> 0,
             listeners |-> listenersSetup([n \in EventNames |-> 0]),
             listenersFor |-> "",
             pending |-> [rating |-> 0, comment |-> 0, vote |-> 0],
             uncaught |-> FALSE]
  /\ results = ResultsOff
  /\ call = CallOff
  /\ nav = NavOff
  /\ mw = MwOff

\* The identity set by the session effect reaches the component state.
sessionEffect ==
  /\ page.mounted
  /\ initSession
  /\ page' = [page EXCEPT !.username = StoredUsername]
  /\ UNCHANGED <<sync, alg, results, call, nav, mw>>

\* The load effect runs for the userId.
loadActivityEffect ==
  /\ page.mounted
  /\ loadActivity
  /\ UNCHANGED <<sync, alg, page, results, call, nav, mw>>

\* getActivity resolved; after the unmount its setters are dropped.
getActivityResolved(activityData) ==
  \/ /\ page.mounted
     /\ loadActivityResolved(activityData)
     /\ UNCHANGED <<sync, alg, page, results, call, nav, mw>>
  \/ /\ ~page.mounted
     /\ loadPc = "await"
     /\ loadPc' = "done"
     /\ lastEvent' = Step("loadActivityResolved", "unmounted")
     /\ UNCHANGED <<activity, loading, error, userId, userRating, userComment,
                    sync, alg, page, results, call, nav, mw>>

\* getActivity threw; after the unmount its setters are dropped.
getActivityRejected ==
  \/ /\ page.mounted
     /\ loadActivityRejected
     /\ UNCHANGED <<sync, alg, page, results, call, nav, mw>>
  \/ /\ ~page.mounted
     /\ loadPc = "await"
     /\ loadPc' = "done"
     /\ lastEvent' = Step("loadActivityRejected", "unmounted")
     /\ UNCHANGED <<activity, loading, error, userId, userRating, userComment,
                    sync, alg, page, results, call, nav, mw>>

\* Mutant: initializeWebSocket without its guard on userId and username.
initializeWebSocket_NoGuard ==
  /\ page.mounted
  /\ page.wsPc = "idle"
  /\ page' = [disconnect(page) EXCEPT !.isReconnecting = TRUE,
                                      !.socket = "connecting",
                                      !.wsPc = "connect"]
  /\ lastEvent' = Step("initializeWebSocket", "connect")
  /\ UNCHANGED <<viewVars, sync, alg, results, call, nav, mw>>

\* The connection effect re-runs for the userId: the cleanup of its first run
\* calls disconnect, then initializeWebSocket runs up to the await of connect.
initializeWebSocket ==
  /\ page.mounted
  /\ page.wsPc = "idle"
  /\ userId # ""
  /\ page.username # ""
  /\ page' = [disconnect(page) EXCEPT !.isReconnecting = TRUE,
                                      !.socket = "connecting",
                                      !.wsPc = "connect"]
  /\ lastEvent' = Step("initializeWebSocket", "connect")
  /\ UNCHANGED <<viewVars, sync, alg, results, call, nav, mw>>

\* connect resolved: setIsConnected(true), then joinActivity is called.  A
\* channel that disconnect released in the meantime stays released.
connectResolved ==
  /\ page.wsPc = "connect"
  /\ page' = [SetState(page, "isConnected", TRUE)
                EXCEPT !.socket = IF @ = "connecting" THEN "open" ELSE @,
                       !.wsPc = "join"]
  /\ lastEvent' = Step("connectResolved", "joinActivity")
  /\ UNCHANGED <<viewVars, sync, alg, results, call, nav, mw>>

\* Mutant: a failed connect is reported like a failed load.
connectRejected_SetsError ==
  /\ page.wsPc = "connect"
  /\ page' = [SetState(SetState(page, "isConnected", FALSE), "isReconnecting", FALSE)
                EXCEPT !.socket = "closed", !.wsPc = "connectFailed"]
  /\ error' = LoadError
  /\ lastEvent' = Step("connectRejected", "-")
  /\ UNCHANGED <<activity, loading, userId, userRating, userComment, loadPc, sync, alg, results, call, nav, mw>>

\* connect threw: setIsConnected(false), then setIsReconnecting(false).
connectRejected ==
  /\ page.wsPc = "connect"
  /\ page' = [SetState(SetState(page, "isConnected", FALSE), "isReconnecting", FALSE)
                EXCEPT !.socket = "closed", !.wsPc = "connectFailed"]
  /\ lastEvent' = Step("connectRejected", "-")
  /\ UNCHANGED <<viewVars, sync, alg, results, call, nav, mw>>

\* joinActivity resolved: setIsReconnecting(false).
joinActivityResolved ==
  /\ page.wsPc = "join"
  /\ page' = [SetState(page, "isReconnecting", FALSE) EXCEPT !.wsPc = "done"]
  /\ lastEvent' = Step("joinActivityResolved", "-")
  /\ UNCHANGED <<viewVars, sync, alg, results, call, nav, mw>>

\* joinActivity threw: setIsConnected(false), then setIsReconnecting(false).
joinActivityRejected ==
  /\ page.wsPc = "join"
  /\ page' = [SetState(SetState(page, "isConnected", FALSE), "isReconnecting", FALSE)
                EXCEPT !.wsPc = "joinFailed"]
  /\ lastEvent' = Step("joinActivityRejected", "-")
  /\ UNCHANGED <<viewVars, sync, alg, results, call, nav, mw>>

\* The listeners effect re-runs for the userId: cleanup, then setup.
listenersEffect ==
  /\ page.mounted
  /\ page.listenersFor # userId
  /\ page' = [page EXCEPT !.listeners = listenersSetup(listenersCleanup(@)),
                          !.listenersFor = userId]
  /\ lastEvent' = Step("listenersEffect", "-")
  /\ UNCHANGED <<viewVars, sync, alg, results, call, nav, mw>>

\* Mutant: the teardown unregisters the handlers but leaves the channel.
unmount_NoDisconnect ==
  /\ page.mounted
  /\ page' = [page EXCEPT !.mounted = FALSE, !.listeners = listenersCleanup(@)]
  /\ lastEvent' = Step("unmount", "-")
  /\ UNCHANGED <<viewVars, sync, alg, results, call, nav, mw>>

\* The view is torn down: the cleanups of the connection effect and of the
\* listeners effect run.
unmount ==
  /\ page.mounted
  /\ page' = [disconnect(page) EXCEPT !.mounted = FALSE,
                                      !.listeners = listenersCleanup(@)]
  /\ lastEvent' = Step("unmount", "-")
  /\ UNCHANGED <<viewVars, sync, alg, results, call, nav, mw>>

\* The open channel hands an event to the handler registered under its name.
pushEvent(e) ==
  /\ page.socket = "open"
  /\ page.listeners[e.name] > 0
  /\ page.listenersFor = userId
  /\ emit(e)
  /\ UNCHANGED <<sync, alg, page, results, call, nav, mw>>

\* The main screens are rendered: not loading, no error, an activity.
Rendered == page.mounted /\ ~loading /\ error = Null /\ activity # Null

\* A callback that does nothing, or a handler that returns at its guard.
NoOp(name, branch) ==
  /\ lastEvent' = Step(name, branch)
  /\ UNCHANGED <<viewVars, sync, alg, page, results, call, nav, mw>>

\* Mutant: the rating is put into the activity at once, before the echo.
handleRatingSubmit_Optimistic(position) ==
  IF activity = Null \/ userId = "" \/ page.username = ""
  THEN NoOp("handleRatingSubmit", "return")
  ELSE /\ page.pending.rating < MaxInFlight
       /\ page' = [page EXCEPT !.pending.rating = @ + 1]
       /\ activity' = applyRatingAdded(activity, [userId |-> userId, position |-> position])
       /\ lastEvent' = Step("handleRatingSubmit", "submitRating")
       /\ UNCHANGED <<loading, error, userId, userRating, userComment, loadPc, sync, alg, results, call, nav, mw>>

\* handleRatingSubmit up to the await of submitRating.
handleRatingSubmit(position) ==
  IF activity = Null \/ userId = "" \/ page.username = ""
  THEN NoOp("handleRatingSubmit", "return")
  ELSE /\ page.pending.rating < MaxInFlight
       /\ page' = [page EXCEPT !.pending.rating = @ + 1]
       /\ lastEvent' = Step("handleRatingSubmit", "submitRating")
       /\ UNCHANGED <<viewVars, sync, alg, results, call, nav, mw>>

\* submitRating resolved: nothing follows the await.
submitRatingResolved ==
  /\ page.pending.rating > 0
  /\ page' = [page EXCEPT !.pending.rating = @ - 1]
  /\ lastEvent' = Step("submitRatingResolved", "-")
  /\ UNCHANGED <<viewVars, sync, alg, results, call, nav, mw>>

\* Mutant: no catch, the rejection reaches the caller of the handler.
submitRatingRejected_Propagates ==
  /\ page.pending.rating > 0
  /\ page' = [page EXCEPT !.pending.rating = @ - 1, !.uncaught = TRUE]
  /\ lastEvent' = Step("submitRatingRejected", "-")
  /\ UNCHANGED <<viewVars, sync, alg, results, call, nav, mw>>

\* submitRating threw: the error is logged.
submitRatingRejected ==
  /\ page.pending.rating > 0
  /\ page' = [page EXCEPT !.pending.rating = @ - 1]
  /\ lastEvent' = Step("submitRatingRejected", "-")
  /\ UNCHANGED <<viewVars, sync, alg, results, call, nav, mw>>

\* Mutant: handleCommentSubmit without the isSubmitting test of its guard.
handleCommentSubmit_NoSubmittingGuard(text) ==
  IF activity = Null \/ userId = "" \/ page.username = ""
  THEN NoOp("handleCommentSubmit", "return")
  ELSE /\ page.pending.comment < MaxInFlight
       /\ page' = [SetState(SetState(page, "isSubmitting", TRUE),
                            "renderedIsSubmitting", TRUE)
                     EXCEPT !.pending.comment = @ + 1]
       /\ lastEvent' = Step("handleCommentSubmit", "submitComment")
       /\ UNCHANGED <<viewVars, sync, alg, results, call, nav, mw>>

\* handleCommentSubmit up to the await of submitComment. The guard reads the
\* isSubmitting its render closed over; setIsSubmitting(true) is called inside
\* the submit event, so the view is rendered again before the event returns.
handleCommentSubmit(text) ==
  IF activity = Null \/ userId = "" \/ page.username = "" \/ page.renderedIsSubmitting
  THEN NoOp("handleCommentSubmit", "return")
  ELSE /\ page.pending.comment < MaxInFlight
       /\ page' = [SetState(SetState(page, "isSubmitting", TRUE),
                            "renderedIsSubmitting", TRUE)
                     EXCEPT !.pending.comment = @ + 1]
       /\ lastEvent' = Step("handleCommentSubmit", "submitComment")
       /\ UNCHANGED <<viewVars, sync, alg, results, call, nav, mw>>

\* The render that follows setIsSubmitting(false), called after an await:
\* from now on the handlers close over the new isSubmitting.
render ==
  /\ page.mounted
  /\ page.renderedIsSubmitting # page.isSubmitting
  /\ page' = [page EXCEPT !.renderedIsSubmitting = page.isSubmitting]
  /\ lastEvent' = Step("render", "-")
  /\ UNCHANGED <<viewVars, sync, alg, results, call, nav, mw>>

\* submitComment resolved: setIsSubmitting(false).
submitCommentResolved ==
  /\ page.pending.comment > 0
  /\ page' = [SetState(page, "isSubmitting", FALSE) EXCEPT !.pending.comment = @ - 1]
  /\ lastEvent' = Step("submitCommentResolved", "-")
  /\ UNCHANGED <<viewVars, sync, alg, results, call, nav, mw>>

\* submitComment threw: the error is logged, then setIsSubmitting(false).
submitCommentRejected ==
  /\ page.pending.comment > 0
  /\ page' = [SetState(page, "isSubmitting", FALSE) EXCEPT !.pending.comment = @ - 1]
  /\ lastEvent' = Step("submitCommentRejected", "-")
  /\ UNCHANGED <<viewVars, sync, alg, results, call, nav, mw>>

\* handleCommentVote up to the await of voteComment.
handleCommentVote(commentId) ==
  IF activity = Null \/ userId = ""
  THEN NoOp("handleCommentVote", "return")
  ELSE /\ page.pending.vote < MaxInFlight
       /\ page' = [page EXCEPT !.pending.vote = @ + 1]
       /\ lastEvent' = Step("handleCommentVote", "voteComment")
       /\ UNCHANGED <<viewVars, sync, alg, results, call, nav, mw>>

\* voteComment resolved: nothing follows the await.
voteCommentResolved ==
  /\ page.pending.vote > 0
  /\ page' = [page EXCEPT !.pending.vote = @ - 1]
  /\ lastEvent' = Step("voteCommentResolved", "-")
  /\ UNCHANGED <<viewVars, sync, alg, results, call, nav, mw>>

\* voteComment threw: the error is logged.
voteCommentRejected ==
  /\ page.pending.vote > 0
  /\ page' = [page EXCEPT !.pending.vote = @ - 1]
  /\ lastEvent' = Step("voteCommentRejected", "-")
  /\ UNCHANGED <<viewVars, sync, alg, results, call, nav, mw>>

\* Mutant: MappingGrid gets handleRatingSubmit whatever the status.
onRatingSubmit_Ungated(position) ==
  /\ Rendered
  /\ handleRatingSubmit(position)

\* The callback MappingGrid gets: empty once the activity is completed.
onRatingSubmit(position) ==
  /\ Rendered
  /\ IF activity.status = "completed"
     THEN NoOp("onRatingSubmit", "noop")
     ELSE handleRatingSubmit(position)

\* The callback CommentSection gets: empty once the activity is completed.
onCommentSubmit(text) ==
  /\ Rendered
  /\ IF activity.status = "completed"
     THEN NoOp("onCommentSubmit", "noop")
     ELSE handleCommentSubmit(text)

\* The vote button of a listed comment: rendered only with a callback and a
\* currentUserId, and ResultsView gets no callback once the activity is
\* completed.
onCommentVote(commentId) ==
  /\ Rendered
  /\ activity.status # "completed"
  /\ userId # ""
  /\ \E i \in DOMAIN activity.comments : activity.comments[i].id = commentId
  /\ handleCommentVote(commentId)

NextPage ==
  \/ sessionEffect
  \/ loadActivityEffect
  \/ \E activityData \in PageDocs : getActivityResolved(activityData)
  \/ getActivityRejected
  \/ initializeWebSocket
  \/ connectResolved
  \/ connectRejected
  \/ joinActivityResolved
  \/ joinActivityRejected
  \/ listenersEffect
  \/ unmount
  \/ \E e \in PageEvents : pushEvent(e)
  \/ \E position \in Positions : onRatingSubmit(position)
  \/ submitRatingResolved
  \/ submitRatingRejected
  \/ \E text \in Texts : onCommentSubmit(text)
  \/ submitCommentResolved
  \/ submitCommentRejected
  \/ render
  \/ \E commentId \in CommentIds : onCommentVote(commentId)
  \/ voteCommentResolved
  \/ voteCommentRejected

SpecPage == InitPage /\ [][NextPage]_vars

\* ------------------------------------------- ResultsView

\* The null of a state that holds a comment id or null.
NoId == "null"

\* Entries on which Array.prototype.find calls its test: those up to and
\* including the first match, all of them when none matches.
FindProbes(s, Test(_)) ==
  IF FindIndex(s, Test) = -1 THEN Len(s) ELSE FindIndex(s, Test) + 1

\* Array.prototype.includes.
includes(s, v) == \E i \in DOMAIN s : s[i] = v

RECURSIVE GCD(_, _)
GCD(m, n) == IF n = 0 THEN m ELSE GCD(n, m % n)

\* The number n / d of JavaScript, for n >= 0 and d >= 0: a fraction in
\* lowest terms, NaN for 0 / 0 and Infinity for a positive n over 0.
Divide(n, d) ==
  IF d = 0 THEN (IF n = 0 THEN [nan |-> TRUE] ELSE [infinity |-> TRUE])
  ELSE [num |-> n \div GCD(n, d), den |-> d \div GCD(n, d)]

\* ratings.reduce((sum, r) => sum + r.position.x, 0).
RECURSIVE reduceX(_)
reduceX(ratings) ==
  IF ratings = << >> THEN 0
  ELSE reduceX(SubSeq(ratings, 1, Len(ratings) - 1)) + ratings[Len(ratings)].position.x

\* ratings.reduce((sum, r) => sum + r.position.y, 0).
RECURSIVE reduceY(_)
reduceY(ratings) ==
  IF ratings = << >> THEN 0
  ELSE reduceY(SubSeq(ratings, 1, Len(ratings) - 1)) + ratings[Len(ratings)].position.y

\* Mutant: the mean is computed without the test for an empty rating list.
stats_NoGuard(act) ==
  [totalParticipants |-> Len(act.participants),
   totalRatings |-> Len(act.ratings),
   totalComments |-> Len(act.comments),
   averagePosition |-> [x |-> Divide(reduceX(act.ratings), Len(act.ratings)),
                        y |-> Divide(reduceY(act.ratings), Len(act.ratings))]]

\* The statistics every render computes from the activity prop.
stats(act) ==
  [totalParticipants |-> Len(act.participants),
   totalRatings |-> Len(act.ratings),
   totalComments |-> Len(act.comments),
   averagePosition |->
     IF Len(act.ratings) > 0
     THEN [x |-> Divide(reduceX(act.ratings), Len(act.ratings)),
           y |-> Divide(reduceY(act.ratings), Len(act.ratings))]
     ELSE Null]

\* Activities the view is first rendered with: open ones, empty or seeded.
ResultsDocs == {d \in PageDocs : d.status = "active"}

\* Push events that change the activity prop while the view is shown.
ResultsEvents ==
  {e \in PageEvents : e.name \in {"rating_added", "comment_added"}}

\* Id lists CommentSection reports as currently rendered.
VisibleLists == {<< >>, <<"c1">>, <<"c3">>, <<"c1", "c3">>}

\* ResultsView is rendered, visible, for the loaded activity of user "b":
\* the useState initial values.
InitResults ==
  /\ activity \in ResultsDocs
  /\ loading = FALSE
  /\ error = Null
  /\ userId = "b"
  /\ userRating = Null
  /\ userComment = Null
  /\ loadPc = "done"
  /\ lastEvent = Step("none", "-")
  /\ sync = SyncOff
  /\ alg = AlgOff
  /\ page = PageOff
  /\ call = CallOff
  /\ nav = NavOff
  /\ mw = MwOff
  /\ results = [pc |-> "on",
                activeTab |-> "map",
                hoveredCommentId |-> NoId,
                selectedCommentId |-> NoId,
                visibleCommentIds |-> << >>,
                mobilePopupComment |-> NoId,
                lookup |-> Null]

\* The parent applies a push event: the view is rendered again with the new
\* activity prop and keeps its own state.
activityChanged(e) ==
  /\ emit(e)
  /\ UNCHANGED <<sync, alg, page, results, call, nav, mw>>

\* One of the two tab buttons of the mobile layout.
setActiveTab(tab) ==
  /\ results' = [results EXCEPT !.activeTab = tab]
  /\ lastEvent' = Step("setActiveTab", tab)
  /\ UNCHANGED <<viewVars, sync, alg, page, call, nav, mw>>

handleCommentHover(commentId) ==
  /\ results' = [results EXCEPT !.hoveredCommentId = commentId]
  /\ lastEvent' = Step("handleCommentHover", "-")
  /\ UNCHANGED <<viewVars, sync, alg, page, call, nav, mw>>

\* Mutant: the dot click selects the comment whether it is rendered or not.
handleMapDotClick_IgnoresVisibility(clickedUserId) ==
  LET comment == Find(activity.comments, LAMBDA c : c.userId = clickedUserId)
  IN /\ stats(activity).totalRatings > 0
     /\ results' =
          [results EXCEPT
             !.selectedCommentId = IF comment # Null THEN comment.id ELSE @,
             !.lookup = [userId |-> clickedUserId,
                         probes |-> FindProbes(activity.comments,
                                               LAMBDA c : c.userId = clickedUserId)]]
     /\ lastEvent' = Step("handleMapDotClick",
                          IF comment # Null THEN "selected" ELSE "ignored")
     /\ UNCHANGED <<viewVars, sync, alg, page, call, nav, mw>>

\* A dot of the desktop grid, drawn when there are ratings, is clicked.
handleMapDotClick(clickedUserId) ==
  LET comment == Find(activity.comments, LAMBDA c : c.userId = clickedUserId)
      hit == comment # Null /\ includes(results.visibleCommentIds, comment.id)
  IN /\ stats(activity).totalRatings > 0
     /\ results' =
          [results EXCEPT
             !.selectedCommentId = IF hit THEN comment.id ELSE @,
             !.lookup = [userId |-> clickedUserId,
                         probes |-> FindProbes(activity.comments,
                                               LAMBDA c : c.userId = clickedUserId)]]
     /\ lastEvent' = Step("handleMapDotClick", IF hit THEN "selected" ELSE "ignored")
     /\ UNCHANGED <<viewVars, sync, alg, page, call, nav, mw>>

\* A dot of the mobile grid, drawn on the map tab when there are ratings, is
\* tapped.
handleMobileMapDotTap(tappedUserId) ==
  LET comment == Find(activity.comments, LAMBDA c : c.userId = tappedUserId)
      hit == comment # Null /\ includes(results.visibleCommentIds, comment.id)
  IN /\ results.activeTab = "map"
     /\ stats(activity).totalRatings > 0
     /\ results' =
          [results EXCEPT
             !.mobilePopupComment = IF hit THEN comment.id ELSE @,
             !.lookup = [userId |-> tappedUserId,
                         probes |-> FindProbes(activity.comments,
                                               LAMBDA c : c.userId = tappedUserId)]]
     /\ lastEvent' = Step("handleMobileMapDotTap", IF hit THEN "opened" ELSE "ignored")
     /\ UNCHANGED <<viewVars, sync, alg, page, call, nav, mw>>

handleVisibleCommentsChange(commentIds) ==
  /\ results' = [results EXCEPT !.visibleCommentIds = commentIds]
  /\ lastEvent' = Step("handleVisibleCommentsChange", "-")
  /\ UNCHANGED <<viewVars, sync, alg, page, call, nav, mw>>

\* CommentSection changes the selection: setSelectedCommentId is its callback.
onSelectedCommentChange(commentId) ==
  /\ results' = [results EXCEPT !.selectedCommentId = commentId]
  /\ lastEvent' = Step("onSelectedCommentChange", "-")
  /\ UNCHANGED <<viewVars, sync, alg, page, call, nav, mw>>

\* The close button of the popup, drawn while the popup's comment exists.
closeMobilePopup ==
  /\ results.mobilePopupComment # NoId
  /\ Find(activity.comments, LAMBDA c : c.id = results.mobilePopupComment) # Null
  /\ results' = [results EXCEPT !.mobilePopupComment = NoId]
  /\ lastEvent' = Step("closeMobilePopup", "-")
  /\ UNCHANGED <<viewVars, sync, alg, page, call, nav, mw>>

NextResults ==
  \/ \E e \in ResultsEvents : activityChanged(e)
  \/ \E tab \in {"map", "comments"} : setActiveTab(tab)
  \/ \E commentId \in {NoId, "c1"} : handleCommentHover(commentId)
  \/ \E u \in Users : handleMapDotClick(u)
  \/ \E u \in Users : handleMobileMapDotTap(u)
  \/ \E commentIds \in VisibleLists : handleVisibleCommentsChange(commentIds)
  \/ \E commentId \in {NoId, "c1", "c3"} : onSelectedCommentChange(commentId)
  \/ closeMobilePopup

SpecResults == InitResults /\ [][NextResults]_vars

\* ------------------------------------------- screen navigation

\* The element ids navigateToScreen scrolls to, by screen index from 0; the
\* first screen has none.
screens == <<"", "mapping-screen", "comment-screen", "results-screen">>

\* navigateToScreen: scroll to the element of the screen, or to the top when
\* the index names none, and setCurrentScreen(screenIndex).
navigateToScreen(n, screenIndex) ==
  LET targetId == IF screenIndex + 1 \in DOMAIN screens THEN screens[screenIndex + 1]
                  ELSE ""
  IN [n EXCEPT !.currentScreen = screenIndex,
               !.scrolledTo = IF targetId # "" THEN targetId ELSE "top"]

\* The main screens are rendered for a loaded activity: useState(0).
InitNav ==
  /\ activity \in PageDocs
  /\ loading = FALSE
  /\ error = Null
  /\ userId = "b"
  /\ userRating = Null
  /\ userComment = Null
  /\ loadPc = "done"
  /\ lastEvent = Step("none", "-")
  /\ sync = SyncOff
  /\ alg = AlgOff
  /\ page = PageOff
  /\ results = ResultsOff
  /\ call = CallOff
  /\ mw = MwOff
  /\ nav = [pc |-> "on", currentScreen |-> 0, scrolledTo |-> "top"]

\* Mutant: the swipe callback keeps the currentScreen of the first render.
onSwipeUp_StaleClosure ==
  /\ nav' = navigateToScreen(nav, 0 + 1)
  /\ lastEvent' = Step("onSwipeUp", "navigate")
  /\ UNCHANGED <<viewVars, sync, alg, page, results, call, mw>>

\* The callbacks are created by the render that follows setCurrentScreen,
\* called inside the gesture's event: they read the current currentScreen.
onSwipeUp ==
  /\ nav' = IF nav.currentScreen < 3 THEN navigateToScreen(nav, nav.currentScreen + 1)
            ELSE nav
  /\ lastEvent' = Step("onSwipeUp", IF nav.currentScreen < 3 THEN "navigate" ELSE "noop")
  /\ UNCHANGED <<viewVars, sync, alg, page, results, call, mw>>

onSwipeDown ==
  /\ nav' = IF nav.currentScreen > 0 THEN navigateToScreen(nav, nav.currentScreen - 1)
            ELSE nav
  /\ lastEvent' = Step("onSwipeDown", IF nav.currentScreen > 0 THEN "navigate" ELSE "noop")
  /\ UNCHANGED <<viewVars, sync, alg, page, results, call, mw>>

\* useSwipeGesture: a finished gesture calls the callback of its direction
\* once.
swipe(direction) ==
  \/ direction = "up" /\ onSwipeUp
  \/ direction = "down" /\ onSwipeDown

\* The arrow of the title screen: to the results of a completed activity, to
\* the mapping screen otherwise.
titleArrow ==
  /\ nav' = IF activity.status = "completed" THEN navigateToScreen(nav, 3)
            ELSE navigateToScreen(nav, 1)
  /\ lastEvent' = Step("titleArrow", "navigate")
  /\ UNCHANGED <<viewVars, sync, alg, page, results, call, mw>>

\* The arrow of the mapping screen.
mappingArrow ==
  /\ nav' = navigateToScreen(nav, 2)
  /\ lastEvent' = Step("mappingArrow", "navigate")
  /\ UNCHANGED <<viewVars, sync, alg, page, results, call, mw>>

\* The arrow of the comment screen.
commentArrow ==
  /\ nav' = navigateToScreen(nav, 3)
  /\ lastEvent' = Step("commentArrow", "navigate")
  /\ UNCHANGED <<viewVars, sync, alg, page, results, call, mw>>

\* A push event changes the activity under the screens.
navPushEvent(e) ==
  /\ emit(e)
  /\ UNCHANGED <<sync, alg, page, results, call, nav, mw>>

NextNav ==
  \/ \E direction \in {"up", "down"} : swipe(direction)
  \/ titleArrow
  \/ mappingArrow
  \/ commentArrow
  \/ \E e \in PageEvents : navPushEvent(e)

SpecNav == InitNav /\ [][NextNav]_vars

\* ------------------------------------------- middleware

\* Host names, paths and the environment value are strings the middleware
\* takes apart: they are sequences of characters here.

\* String.prototype.startsWith.
startsWith(s, p) == Len(s) >= Len(p) /\ SubSeq(s, 1, Len(p)) = p

\* String.prototype.includes.
stringIncludes(s, p) ==
  \E i \in 0..(Len(s) - Len(p)) : SubSeq(s, i + 1, i + Len(p)) = p

\* s.split(sep)[0] for a separator of one character: what stands before its
\* first occurrence, all of s when it does not occur.
splitFirst(s, sep) ==
  IF \E i \in DOMAIN s : s[i] = sep
  THEN SubSeq(s, 1, (CHOOSE i \in DOMAIN s : s[i] = sep /\ \A j \in 1..(i - 1) : s[j] # sep) - 1)
  ELSE s

\* Host headers of the requests; the empty one stands for a request without
\* the header as well.
Hosts ==
  {<< >>,
   <<"l", "o", "c", "a", "l", "h", "o", "s", "t">>,
   <<"l", "o", "c", "a", "l", "h", "o", "s", "t", ":", "3", "0", "0", "0">>,
   <<"a", "d", "m", "i", "n", ".", "l", "o", "c", "a", "l", "h", "o", "s", "t">>,
   <<"a", "d", "m", "i", "n", ".", "l", "o", "c", "a", "l", "h", "o", "s", "t", ":", "3", "0", "0", "0">>,
   <<"a", "d", "m", "i", "n", ".", "e", "x", "a", "m", "p", "l", "e", ".", "c", "o", "m">>,
   <<"m", "a", "n", "a", "g", "e", ".", "e", "x", "a", "m", "p", "l", "e", ".", "c", "o", "m">>,
   <<"w", "w", "w", ".", "e", "x", "a", "m", "p", "l", "e", ".", "c", "o", "m">>,
   <<"a", "p", "p", ".", "l", "o", "c", "a", "l", "h", "o", "s", "t", ":", "3", "0", "0", "0">>,
   <<"l", "o", "c", "a", "l", "h", "o", "s", "t", ".", "e", "x", "a", "m", "p", "l", "e", ".", "c", "o", "m">>}

\* Paths of the requests.
Pathnames ==
  {<<"/">>,
   <<"/", "a", "b", "o", "u", "t">>,
   <<"/", "a", "d", "m", "i", "n">>,
   <<"/", "a", "d", "m", "i", "n", "/", "u", "s", "e", "r", "s">>,
   <<"/", "a", "p", "i", "/", "x">>,
   <<"/", "f", "a", "v", "i", "c", "o", "n", ".", "i", "c", "o">>}

\* process.env.<<"a", "d", "m", "i", "n">>_SUBDOMAIN: unset or empty, or "manage".
EnvValues == {<< >>, <<"m", "a", "n", "a", "g", "e">>}

\* The alternatives of the negative lookahead of config.matcher.
MatcherExclusions ==
  {<<"a", "p", "i">>,
   <<"_", "n", "e", "x", "t", "/", "s", "t", "a", "t", "i", "c">>,
   <<"_", "n", "e", "x", "t", "/", "i", "m", "a", "g", "e">>,
   <<"f", "a", "v", "i", "c", "o", "n", ".", "i", "c", "o">>,
   <<"p", "u", "b", "l", "i", "c">>}

\* A pattern of literal characters and dots matches the start of s; a dot
\* stands for any character.
prefixMatches(s, pattern) ==
  /\ Len(s) >= Len(pattern)
  /\ \A i \in DOMAIN pattern : pattern[i] = "." \/ s[i] = pattern[i]

\* config.matcher: the middleware runs for a path unless what follows its
\* first slash starts with one of the exclusions.
matches(pathname) ==
  /\ pathname # << >>
  /\ pathname[1] = "/"
  /\ \A pattern \in MatcherExclusions : ~prefixMatches(Tail(pathname), pattern)

Redirect(pathname) == [kind |-> "redirect", pathname |-> pathname]

NotFound == [kind |-> "notFound", status |-> 404]

Continue == [kind |-> "next"]

\* The string literals of the middleware.
AdminLocalhostPort == <<"a", "d", "m", "i", "n", ".", "l", "o", "c", "a", "l", "h", "o", "s", "t", ":", "3", "0", "0", "0">>

AdminLocalhost == <<"a", "d", "m", "i", "n", ".", "l", "o", "c", "a", "l", "h", "o", "s", "t">>

AdminRoute == <<"/", "a", "d", "m", "i", "n">>

AdminDot == <<"a", "d", "m", "i", "n", ".">>

DefaultAdminSubdomain == <<"a", "d", "m", "i", "n">>

Localhost == <<"l", "o", "c", "a", "l", "h", "o", "s", "t">>

\* Mutant: the redirect keeps the path as it is.
middleware_RedirectKeepsPath(request, env) ==
  LET hostname == request.host
      subdomain == splitFirst(hostname, ".")
      adminSubdomain == IF env # << >> THEN env ELSE DefaultAdminSubdomain
      isAdminRoute == startsWith(request.pathname, AdminRoute)
      isLocalAdmin == hostname = AdminLocalhostPort \/ hostname = AdminLocalhost
      isAdminSubdomain == subdomain = adminSubdomain \/ isLocalAdmin
      isLocalhost == stringIncludes(hostname, Localhost) /\ ~stringIncludes(hostname, AdminDot)
  IN IF isAdminSubdomain /\ ~isAdminRoute
     THEN Redirect(request.pathname)
     ELSE IF isAdminRoute /\ ~isAdminSubdomain /\ ~isLocalhost
          THEN NotFound
          ELSE Continue

\* middleware(request): the NextResponse it returns.
middleware(request, env) ==
  LET hostname == request.host
      subdomain == splitFirst(hostname, ".")
      adminSubdomain == IF env # << >> THEN env ELSE DefaultAdminSubdomain
      isAdminRoute == startsWith(request.pathname, AdminRoute)
      isLocalAdmin == hostname = AdminLocalhostPort \/ hostname = AdminLocalhost
      isAdminSubdomain == subdomain = adminSubdomain \/ isLocalAdmin
      isLocalhost == stringIncludes(hostname, Localhost) /\ ~stringIncludes(hostname, AdminDot)
  IN IF isAdminSubdomain /\ ~isAdminRoute
     THEN Redirect(AdminRoute \o request.pathname)
     ELSE IF isAdminRoute /\ ~isAdminSubdomain /\ ~isLocalhost
          THEN NotFound
          ELSE Continue

\* What the server answers a request with: the middleware's response for a
\* path the matcher selects, the route itself for any other.
respond(request, env) ==
  IF matches(request.pathname) THEN middleware(request, env) ELSE Continue

\* The server is up with its environment; no request has been made.
InitMw ==
  /\ InitView
  /\ sync = SyncOff
  /\ alg = AlgOff
  /\ page = PageOff
  /\ results = ResultsOff
  /\ call = CallOff
  /\ nav = NavOff
  /\ \E env \in EnvValues :
       mw = [pc |-> "on", env |-> env, request |-> Null, response |-> Null,
             followed |-> FALSE]

\* A client sends a request and gets the answer.
request(host, pathname) ==
  LET req == [host |-> host, pathname |-> pathname]
  IN /\ mw' = [mw EXCEPT !.request = req, !.response = respond(req, mw.env),
                         !.followed = FALSE]
     /\ lastEvent' = Step("request", respond(req, mw.env).kind)
     /\ UNCHANGED <<viewVars, sync, alg, page, results, call, nav>>

\* The client follows a redirect: the same host, the path of the redirect.
followRedirect ==
  /\ mw.response # Null
  /\ mw.response.kind = "redirect"
  /\ LET req == [host |-> mw.request.host, pathname |-> mw.response.pathname]
     IN /\ mw' = [mw EXCEPT !.request = req, !.response = respond(req, mw.env),
                            !.followed = TRUE]
        /\ lastEvent' = Step("followRedirect", respond(req, mw.env).kind)
  /\ UNCHANGED <<viewVars, sync, alg, page, results, call, nav>>

NextMw ==
  \/ \E host \in Hosts, pathname \in Pathnames : request(host, pathname)
  \/ followRedirect

SpecMw == InitMw /\ [][NextMw]_vars

\* ------------------------------------------- ActivityService.getActivityByUrlName

\* Names asked for.
UrlNames == {"topic", "missing"}

\* Response statuses the server answers with.
HttpStatuses == {200, 201, 404, 500, 503}

\* A body response.json() cannot parse.
Malformed == [malformed |-> TRUE]

\* Response bodies: ApiResponse objects with and without data, and a body
\* that is not JSON.
Bodies ==
  {Malformed}
    \cup {[success |-> ok, data |-> d] : ok \in BOOLEAN, d \in {Null} \cup PageDocs}

Responses == {[status |-> st, body |-> b] : st \in HttpStatuses, b \in Bodies}

\* fetch rejects: no response at all.
NetworkFailure == [networkFailure |-> TRUE]

\* Response.ok.
ok(response) == response.status \in 200..299

Returned(value) == [kind |-> "returned", value |-> value]

Thrown(message) == [kind |-> "thrown", message |-> message]

InitByUrl ==
  /\ InitView
  /\ sync = SyncOff
  /\ alg = AlgOff
  /\ page = PageOff
  /\ results = ResultsOff
  /\ nav = NavOff
  /\ mw = MwOff
  /\ call = [pc |-> "idle", urlName |-> "", response |-> Null, outcome |-> Null,
             logged |-> FALSE]

\* The call starts: fetch is awaited.
getActivityByUrlName(urlName) ==
  /\ call.pc \in {"idle", "done"}
  /\ call' = [pc |-> "fetch", urlName |-> urlName, response |-> Null, outcome |-> Null,
              logged |-> FALSE]
  /\ lastEvent' = Step("getActivityByUrlName", "fetch")
  /\ UNCHANGED <<viewVars, sync, alg, page, results, nav, mw>>

\* Mutant: every response that is not ok counts as not found.
fetchResolved_NotOkIsNull(response) ==
  /\ call.pc = "fetch"
  /\ call' = IF ~ok(response)
             THEN [call EXCEPT !.pc = "done", !.response = response,
                               !.outcome = Returned(Null)]
             ELSE [call EXCEPT !.pc = "json", !.response = response]
  /\ lastEvent' = Step("fetchResolved", IF ~ok(response) THEN "notOk" ELSE "json")
  /\ UNCHANGED <<viewVars, sync, alg, page, results, nav, mw>>

\* fetch resolves: a response that is not ok ends the call, null for 404 and
\* a logged, rethrown Error otherwise; an ok response has its body parsed.
fetchResolved(response) ==
  /\ call.pc = "fetch"
  /\ call' = IF ~ok(response)
             THEN IF response.status = 404
                  THEN [call EXCEPT !.pc = "done", !.response = response,
                                    !.outcome = Returned(Null)]
                  ELSE [call EXCEPT !.pc = "done", !.response = response,
                                    !.outcome = Thrown("Failed to fetch activity"),
                                    !.logged = TRUE]
             ELSE [call EXCEPT !.pc = "json", !.response = response]
  /\ lastEvent' = Step("fetchResolved", IF ~ok(response) THEN "notOk" ELSE "json")
  /\ UNCHANGED <<viewVars, sync, alg, page, results, nav, mw>>

\* fetch rejects: the catch logs and rethrows.
fetchRejected ==
  /\ call.pc = "fetch"
  /\ call' = [call EXCEPT !.pc = "done", !.response = NetworkFailure,
                          !.outcome = Thrown("network"), !.logged = TRUE]
  /\ lastEvent' = Step("fetchRejected", "-")
  /\ UNCHANGED <<viewVars, sync, alg, page, results, nav, mw>>

\* response.json() resolves: null unless the body reports success with data.
jsonResolved ==
  /\ call.pc = "json"
  /\ call.response.body # Malformed
  /\ LET data == call.response.body
     IN call' = [call EXCEPT
                   !.pc = "done",
                   !.outcome = IF ~data.success \/ data.data = Null
                               THEN Returned(Null)
                               ELSE Returned(data.data)]
  /\ lastEvent' = Step("jsonResolved", "-")
  /\ UNCHANGED <<viewVars, sync, alg, page, results, nav, mw>>

\* response.json() rejects: the catch logs and rethrows.
jsonRejected ==
  /\ call.pc = "json"
  /\ call.response.body = Malformed
  /\ call' = [call EXCEPT !.pc = "done", !.outcome = Thrown("syntax"), !.logged = TRUE]
  /\ lastEvent' = Step("jsonRejected", "-")
  /\ UNCHANGED <<viewVars, sync, alg, page, results, nav, mw>>

NextByUrl ==
  \/ \E urlName \in UrlNames : getActivityByUrlName(urlName)
  \/ \E response \in Responses : fetchResolved(response)
  \/ fetchRejected
  \/ jsonResolved
  \/ jsonRejected

SpecByUrl == InitByUrl /\ [][NextByUrl]_vars

\* --------------------------------------------------------------- claims

RatingsOf(act, u) == SelectSeq(act.ratings, LAMBDA r : r.userId = u)

CommentsOf(act, u) == SelectSeq(act.comments, LAMBDA c : c.userId = u)

\* C1: once a snapshot with one rating per userId is loaded, whatever push
\* events follow, the activity never holds two ratings of the same userId.
C1_OneRatingPerUser ==
  activity # Null => UniqueBy(activity.ratings, UserIdOf)

\* A rating_added for a user who already had a rating has been applied next to
\* another user's rating.
C1_Witness ==
  /\ activity # Null
  /\ lastEvent = Step("rating_added", "replaced")
  /\ Len(activity.ratings) = 2

\* C2: the comment list of a loaded activity never holds two comments of one
\* userId, and after a comment_added that matches a stored comment on
\* (userId, text) exactly one entry carries that (userId, text).
C2_OneCommentPerUser ==
  /\ [](activity # Null => UniqueBy(activity.comments, UserIdOf))
  /\ [][\A comment \in Comments :
          (/\ lastEvent' = Step("comment_added", "replaced")
           /\ comment_added(comment))
          => Cardinality({i \in DOMAIN activity'.comments :
                            /\ activity'.comments[i].userId = comment.userId
                            /\ activity'.comments[i].text = comment.text}) = 1]_vars

\* A comment_added repeating a stored (userId, text) has been applied while
\* another user's comment is stored too.
C2_Witness ==
  /\ activity # Null
  /\ lastEvent = Step("comment_added", "replaced")
  /\ Len(activity.comments) = 2

\* C3: after a rating_added for a user is applied to a loaded activity the
\* ratings stored for that user are exactly the incoming one, and they stay so
\* until the next rating_added for that user.
C3_LastRatingRetained ==
  [][activity # Null =>
       \A u \in Users :
         IF lastEvent'.name = "rating_added"
              /\ \E rating \in Ratings : rating.userId = u /\ rating_added(rating)
         THEN \A rating \in Ratings :
                (rating.userId = u /\ rating_added(rating))
                => RatingsOf(activity', u) = <<rating>>
         ELSE RatingsOf(activity', u) = RatingsOf(activity, u)]_vars

\* The current user's rating has been replaced by a later rating_added and
\* sits last in the list, after the other user's rating.
C3_Witness ==
  /\ activity # Null
  /\ lastEvent = Step("rating_added", "replaced")
  /\ userRating # Null
  /\ Len(activity.ratings) = 2
  /\ activity.ratings[2] = userRating
  /\ RatingsOf(activity, userId) = <<userRating>>

\* C4: a push event delivered while activity is null leaves the whole client
\* state as it was.
C4_NullIsNoOp ==
  [][(activity = Null /\ lastEvent'.name \in EventNames)
     => /\ activity' = Null
        /\ UNCHANGED <<loading, error, userId, userRating, userComment, loadPc>>]_vars

\* C8 as claimed: the vote count stored for a comment id never decreases from one state
\* to the next.
C8_VotesNeverDecrease ==
  [][(activity # Null /\ activity' # Null)
     => \A i \in DOMAIN activity.comments, j \in DOMAIN activity'.comments :
          activity.comments[i].id = activity'.comments[j].id
          => activity'.comments[j].voteCount >= activity.comments[i].voteCount]_vars

\* C8 amended: the vote count stored for a comment id changes only when a
\* comment_added or comment_voted carrying that id is applied, and then it is
\* the count the event carries.
C8_VotesFollowEvents ==
  [][(activity # Null /\ activity' # Null)
     => \A i \in DOMAIN activity.comments, j \in DOMAIN activity'.comments :
          (/\ activity.comments[i].id = activity'.comments[j].id
           /\ activity.comments[i].voteCount # activity'.comments[j].voteCount)
          => \E comment \in Comments :
               /\ comment.id = activity'.comments[j].id
               /\ comment.voteCount = activity'.comments[j].voteCount
               /\ \/ lastEvent'.name = "comment_added" /\ comment_added(comment)
                  \/ lastEvent'.name = "comment_voted" /\ comment_voted(comment)]_vars

\* A comment_voted has been applied and the current user's comment, once
\* stored with 3 votes, is now stored with none.
C8_Witness ==
  /\ activity # Null
  /\ lastEvent = Step("comment_voted", "replaced")
  /\ userComment # Null
  /\ userComment.voteCount = 3
  /\ \E i \in DOMAIN activity.comments :
       /\ activity.comments[i].id = userComment.id
       /\ activity.comments[i].voteCount = 0

RatingUsers(act) == {act.ratings[i].userId : i \in DOMAIN act.ratings}

CommentUsers(act) == {act.comments[i].userId : i \in DOMAIN act.comments}

ParticipantSet(act) == {act.participants[i] : i \in DOMAIN act.participants}

\* C9: a push event applied to a loaded activity keeps every userId that had
\* a rating, every userId that had a comment and, unless it is
\* participant_left, every participant id; participant_left removes exactly
\* the participants with the given id.
C9_NoRemovalExceptLeft ==
  [][(activity # Null /\ lastEvent'.name \in EventNames)
     => /\ RatingUsers(activity) \subseteq RatingUsers(activity')
        /\ CommentUsers(activity) \subseteq CommentUsers(activity')
        /\ IF lastEvent'.name = "participant_left"
           THEN \A participantId \in ParticipantIds :
                  participant_left(participantId)
                  => ParticipantSet(activity') =
                       {p \in ParticipantSet(activity) : p.id # participantId}
           ELSE {p.id : p \in ParticipantSet(activity)}
                  \subseteq {p.id : p \in ParticipantSet(activity')}]_vars

\* A resubmission with a new text has evicted the sender's comment, and both
\* users still have a comment.
C9_Witness ==
  /\ activity # Null
  /\ lastEvent = Step("comment_added", "evicted")
  /\ CommentUsers(activity) = Users
  /\ Len(activity.participants) = 2

\* C10: a comment_added matching a stored comment on userId and text puts the
\* incoming comment at that comment's position and leaves the length of the
\* list and every other comment as they were.
C10_ReplaceInPlace ==
  [][\A comment \in Comments :
       (/\ lastEvent' = Step("comment_added", "replaced")
        /\ comment_added(comment))
       => /\ Len(activity'.comments) = Len(activity.comments)
          /\ \A i \in DOMAIN activity.comments :
               activity'.comments[i] =
                 IF /\ activity.comments[i].userId = comment.userId
                    /\ activity.comments[i].text = comment.text
                 THEN comment
                 ELSE activity.comments[i]]_vars

\* The echo of the current user's comment arrived with voteCount 3 and took
\* the first position, in front of the other user's comment.
C10_Witness ==
  /\ activity # Null
  /\ lastEvent = Step("comment_added", "replaced")
  /\ Len(activity.comments) = 2
  /\ activity.comments[1] = userComment
  /\ userComment.userId = userId
  /\ userComment.voteCount = 3
  /\ CommentsOf(activity, userId) = <<userComment>>

\* The two documents hold the same ratings, comments and participants.
SameSets(x, y) ==
  /\ {x.ratings[i] : i \in DOMAIN x.ratings} = {y.ratings[i] : i \in DOMAIN y.ratings}
  /\ {x.comments[i] : i \in DOMAIN x.comments} = {y.comments[i] : i \in DOMAIN y.comments}
  /\ {x.participants[i] : i \in DOMAIN x.participants}
       = {y.participants[i] : i \in DOMAIN y.participants}

\* C5: once the snapshot is installed and the channel, open since before the
\* server's first mutation, has delivered every event, the client holds the
\* server's ratings, comments and participants.
C5_EventualConsistency ==
  (/\ sync.pc = "on"
   /\ loadPc = "done"
   /\ activity # Null
   /\ sync.channel = << >>
   /\ ~sync.missed)
  => SameSets(activity, sync.server)

\* C6 as claimed: two events of different names give the same sets in either
\* delivery order.
C6_AnyOrderSameSets ==
  (alg.pc = "two" /\ alg.e1.name # alg.e2.name) => SameSets(activity, alg.swapped)

\* The two events address the same comment id or the same participant id.
SameEntity(e1, e2) ==
  \/ /\ {e1.name, e2.name} = {"comment_added", "comment_voted"}
     /\ e1.payload.id = e2.payload.id
  \/ /\ e1.name = "participant_joined" /\ e2.name = "participant_left"
     /\ e1.payload.id = e2.payload
  \/ /\ e1.name = "participant_left" /\ e2.name = "participant_joined"
     /\ e1.payload = e2.payload.id

\* C6 amended: two events of different names that do not address the same
\* comment id or the same participant id give the same sets in either
\* delivery order.
C6_UnrelatedOrderSameSets ==
  (/\ alg.pc = "two"
   /\ alg.e1.name # alg.e2.name
   /\ ~SameEntity(alg.e1, alg.e2))
  => SameSets(activity, alg.swapped)

\* A resubmission by "a" under a new id and a vote on another comment have
\* been delivered, and the resubmission evicted the stored comment of "a".
C6_Witness ==
  /\ alg.pc = "two"
  /\ alg.e1.name = "comment_voted"
  /\ alg.e2.name = "comment_added"
  /\ ~SameEntity(alg.e1, alg.e2)
  /\ alg.base # alg.mid
  /\ lastEvent = Step("comment_added", "evicted")

\* C7: delivering the event that was just delivered once more leaves
\* ratings, comments and participants as the first delivery left them.
C7_RepeatIsIdempotent ==
  (alg.pc = "two" /\ alg.e1 = alg.e2) => activity = alg.mid

\* A participant_joined changed the roster and was delivered a second time.
C7_Witness ==
  /\ alg.pc = "two"
  /\ alg.e1 = alg.e2
  /\ alg.e1.name = "participant_joined"
  /\ alg.base # alg.mid
  /\ Len(activity.participants) = 2

\* C11: a comment_added whose (userId, text) matches no stored comment leaves
\* the incoming comment as the sender's only comment, at the end of the list,
\* and leaves the comments of the other users as they were, in their order.
C11_EvictThenAppend ==
  [][lastEvent'.name = "comment_added" /\ activity # Null
     => \A comment \in Comments :
          (/\ ~\E i \in DOMAIN activity.comments :
                /\ activity.comments[i].userId = comment.userId
                /\ activity.comments[i].text = comment.text
           /\ comment_added(comment))
          => /\ CommentsOf(activity', comment.userId) = <<comment>>
             /\ activity'.comments[Len(activity'.comments)] = comment
             /\ SelectSeq(activity'.comments, LAMBDA c : c.userId # comment.userId)
                  = SelectSeq(activity.comments, LAMBDA c : c.userId # comment.userId)]_vars

\* User "a" resubmitted with the text "bye" under the id c2: the earlier
\* comment of "a" is gone, c2 is last and the comment of "b" is still stored.
C11_Witness ==
  /\ activity # Null
  /\ lastEvent = Step("comment_added", "evicted")
  /\ Len(activity.comments) = 2
  /\ activity.comments[1].userId = "b"
  /\ activity.comments[2].id = "c2"
  /\ activity.comments[2].text = "bye"

\* C12: a comment_voted leaves the length of the comment list as it was, puts
\* the incoming comment at every position that held its id and leaves every
\* other position as it was; with no stored comment of that id the list is
\* unchanged.
C12_VoteReplacesById ==
  [][lastEvent'.name = "comment_voted" /\ activity # Null
     => \A comment \in Comments :
          comment_voted(comment)
          => /\ Len(activity'.comments) = Len(activity.comments)
             /\ \A i \in DOMAIN activity.comments :
                  activity'.comments[i] =
                    IF activity.comments[i].id = comment.id
                    THEN comment
                    ELSE activity.comments[i]
             /\ (\A i \in DOMAIN activity.comments : activity.comments[i].id # comment.id)
                  => activity'.comments = activity.comments]_vars

\* A vote on a comment id that is not stored (c1, while "a" is stored under
\* c2) has been delivered to an activity holding two comments.
C12_Witness ==
  /\ activity # Null
  /\ lastEvent = Step("comment_voted", "unmatched")
  /\ Len(activity.comments) = 2
  /\ \E i \in DOMAIN activity.comments : activity.comments[i].id = "c2"

\* C13: participant ids of a loaded activity are unique; a participant_left
\* for an id that is not in the roster leaves the roster as it was; after a
\* participant_joined for an id in the roster the id occurs once, with the
\* incoming participant.
C13_ParticipantUpsertAndRemove ==
  /\ [](activity # Null => UniqueBy(activity.participants, IdOf))
  /\ [][\A participantId \in ParticipantIds :
          (/\ activity # Null
           /\ \A i \in DOMAIN activity.participants :
                activity.participants[i].id # participantId
           /\ participant_left(participantId))
          => activity'.participants = activity.participants]_vars
  /\ [][\A participant \in Participants :
          (/\ activity # Null
           /\ \E i \in DOMAIN activity.participants :
                activity.participants[i].id = participant.id
           /\ participant_joined(participant))
          => /\ Cardinality({i \in DOMAIN activity'.participants :
                               activity'.participants[i].id = participant.id}) = 1
             /\ participant \in ParticipantSet(activity')]_vars

\* p1 joined again under another name while p2 is in the roster: p1 is stored
\* once, last, with the new name.
C13_Witness ==
  /\ activity # Null
  /\ lastEvent = Step("participant_joined", "replaced")
  /\ Len(activity.participants) = 2
  /\ activity.participants[1].id = "p2"
  /\ activity.participants[2].id = "p1"

\* Steps of the gestures and of the local action handlers.
LocalSteps ==
  {"onRatingSubmit", "onCommentSubmit", "handleRatingSubmit", "handleCommentSubmit",
   "handleCommentVote", "submitRatingResolved", "submitRatingRejected",
   "submitCommentResolved", "submitCommentRejected", "voteCommentResolved",
   "voteCommentRejected"}

\* C14: no step of handleRatingSubmit, handleCommentSubmit or
\* handleCommentVote, at the call or when the API call resolves or throws,
\* changes the activity; the activity changes only in a step of the snapshot
\* load or of one of the five push-event handlers.
C14_LocalHandlersLeaveActivity ==
  [][/\ lastEvent'.name \in LocalSteps => activity' = activity
     /\ activity' # activity
          => lastEvent'.name \in EventNames \cup {"loadActivityResolved"}]_vars

\* A vote call has thrown while a rating call and a comment call are in
\* flight, and the activity is still the snapshot that was loaded.
C14_Witness ==
  /\ page.pc = "on"
  /\ lastEvent = Step("voteCommentRejected", "-")
  /\ page.pending.rating = 1
  /\ page.pending.comment = 1
  /\ page.isSubmitting
  /\ activity \in PageDocs

\* The API calls of the view other than getActivity, as branches of a step.
MutatingCalls == {"submitRating", "submitComment", "voteComment"}

\* C15: from a state whose activity is completed no step issues submitRating,
\* submitComment or voteComment and no local handler runs; a rating or comment
\* gesture changes nothing.
C15_CompletedDisablesMutations ==
  [][(activity # Null /\ activity.status = "completed")
     => /\ lastEvent'.branch \notin MutatingCalls
        /\ lastEvent'.name
             \notin {"handleRatingSubmit", "handleCommentSubmit", "handleCommentVote"}
        /\ lastEvent'.name \in {"onRatingSubmit", "onCommentSubmit"}
             => UNCHANGED <<viewVars, page>>]_vars

\* The map of a completed activity holding a comment was clicked.
C15_Witness ==
  /\ page.pc = "on"
  /\ activity # Null
  /\ activity.status = "completed"
  /\ Len(activity.comments) = 1
  /\ lastEvent = Step("onRatingSubmit", "noop")

C17_StaleResponsesIgnored ==
  [][~page.mounted
     => /\ lastEvent'.branch \notin MutatingCalls \cup {"joinActivity"}
        /\ lastEvent'.name \notin EventNames \cup {"loadActivity"}]_vars

\* C18: the view never has more than one handler registered under an event
\* name, a re-run of the listeners effect leaves one under each name, and
\* after the teardown none is left.
C18_OneHandlerPerName ==
  /\ [](\A n \in EventNames :
          /\ page.listeners[n] <= 1
          /\ ~page.mounted => page.listeners[n] = 0)
  /\ [][lastEvent'.name = "listenersEffect"
        => \A n \in EventNames : page'.listeners[n] = 1]_vars

\* The listeners effect has re-run for the userId of the session.
C18_Witness ==
  /\ page.pc = "on"
  /\ lastEvent = Step("listenersEffect", "-")
  /\ page.listenersFor = "b"
  /\ \A n \in EventNames : page.listeners[n] = 1

\* C19: the step of a failed connect leaves isConnected false and error,
\* activity, loading and the mounting as they were; after it isConnected is
\* false, a pending getActivity can still resolve into the view and a gesture
\* on the rendered, active activity still reaches its handler.
C19_FailedConnectNonFatal ==
  /\ [][lastEvent' = Step("connectRejected", "-")
        => /\ ~page'.isConnected
           /\ UNCHANGED <<activity, loading, error, loadPc>>
           /\ page'.mounted = page.mounted]_vars
  /\ [](page.wsPc = "connectFailed" => ~page.isConnected)
  /\ []((page.wsPc = "connectFailed" /\ page.mounted /\ loadPc = "await")
        => ENABLED (\E activityData \in PageDocs : getActivityResolved(activityData)))
  /\ []((/\ page.wsPc = "connectFailed"
         /\ Rendered
         /\ activity.status = "active"
         /\ page.pending.rating < MaxInFlight)
        => ENABLED (\E position \in Positions :
                      /\ onRatingSubmit(position)
                      /\ lastEvent' = Step("handleRatingSubmit", "submitRating")))

\* After connect failed the snapshot was loaded and a rating gesture reached
\* submitRating.
C19_Witness ==
  /\ page.pc = "on"
  /\ page.wsPc = "connectFailed"
  /\ ~page.isConnected
  /\ error = Null
  /\ activity # Null
  /\ lastEvent = Step("handleRatingSubmit", "submitRating")

\* C20: when getActivity throws into the mounted view, loading becomes false,
\* error is set and the activity stays as it was; when it resolves, loading
\* becomes false, error is null and the activity is the fetched document;
\* once the load has ended, loading and error keep their values.
C20_LoadOutcome ==
  /\ [][(page.mounted /\ getActivityRejected)
        => /\ ~loading'
           /\ error' = LoadError
           /\ activity' = activity]_vars
  /\ [][\A activityData \in PageDocs :
          (page.mounted /\ getActivityResolved(activityData))
          => /\ ~loading'
             /\ error' = Null
             /\ activity' = activityData]_vars
  /\ [][loadPc = "done" => UNCHANGED <<loading, error>>]_vars

\* The load has failed: the error page with its retry button is shown.
C20_Witness ==
  /\ page.pc = "on"
  /\ page.mounted
  /\ lastEvent = Step("loadActivityRejected", "-")
  /\ ~loading
  /\ error = LoadError
  /\ activity = Null

\* C21: a step in which submitRating, submitComment or voteComment throws
\* leaves the page error unset and the activity as it was, and no rejection
\* leaves the handler.
C21_MutationFailuresSwallowed ==
  [][lastEvent'.name
       \in {"submitRatingRejected", "submitCommentRejected", "voteCommentRejected"}
     => /\ error = Null
        /\ error' = Null
        /\ activity' = activity
        /\ ~page'.uncaught]_vars

\* submitComment has thrown into the mounted, rendered view: the form is
\* released and no error is shown.
C21_Witness ==
  /\ page.pc = "on"
  /\ lastEvent = Step("submitCommentRejected", "-")
  /\ Rendered
  /\ ~page.isSubmitting
  /\ page.pending.comment = 0

\* The collection a push event is about.
OwnCollection(name) ==
  CASE name = "rating_added" -> "ratings"
    [] name \in {"comment_added", "comment_voted"} -> "comments"
    [] name \in {"participant_joined", "participant_left"} -> "participants"

\* C26: a push event applied to a loaded activity leaves every field of the
\* activity other than its own collection as it was: the two other
\* collections, id, title, questions, axes and status.
C26_HandlersKeepOtherFields ==
  [][(lastEvent'.name \in EventNames /\ activity # Null)
     => /\ DOMAIN activity' = DOMAIN activity
        /\ \A f \in DOMAIN activity :
             f # OwnCollection(lastEvent'.name) => activity'[f] = activity[f]]_vars

\* A rating_added has been applied to a completed activity that holds a
\* comment and a participant.
C26_Witness ==
  /\ page.pc = "on"
  /\ lastEvent.name = "rating_added"
  /\ activity # Null
  /\ activity.status = "completed"
  /\ activity.title = "Topic"
  /\ Len(activity.ratings) = 2
  /\ Len(activity.comments) = 1
  /\ Len(activity.participants) = 1

\* C29: while the channel stands open for the mounted view, isConnected is
\* true.
C29_IndicatorReflectsChannel ==
  (page.pc = "on" /\ page.mounted /\ page.socket = "open") => page.isConnected

\* C30: joinActivity is issued only in the step in which connect resolves,
\* never once connect has failed, and neither connect nor getActivity is
\* started while userId is empty.
C30_JoinOnlyAfterConnect ==
  /\ [][(lastEvent'.branch = "joinActivity" \/ (page'.wsPc = "join" /\ page.wsPc # "join"))
        => (lastEvent'.name = "connectResolved" /\ page.wsPc = "connect")]_vars
  /\ [][page.wsPc = "connectFailed" => page'.wsPc = "connectFailed"]_vars
  /\ [][lastEvent'.name \in {"initializeWebSocket", "loadActivity"} => userId # ""]_vars

\* connect has resolved for the session's userId and joinActivity is in
\* flight.
C30_Witness ==
  /\ page.pc = "on"
  /\ page.mounted
  /\ userId = "b"
  /\ page.username = StoredUsername
  /\ page.wsPc = "join"
  /\ lastEvent = Step("connectResolved", "joinActivity")

\* C27: whenever the activity is loaded and userRating is set, userRating is
\* the one rating the activity stores for the session's userId.
C27_UserRatingMatchesStored ==
  (sync.pc = "on" /\ activity # Null /\ userRating # Null)
  => RatingsOf(activity, userId) = <<userRating>>

\* C28: whenever the loaded activity stores a comment of the session's userId,
\* userComment is that stored comment.
C28_UserCommentMatchesStored ==
  (sync.pc = "on" /\ activity # Null /\ CommentsOf(activity, userId) # << >>)
  => userComment = CommentsOf(activity, userId)[1]

\* The sum of one coordinate over the first n ratings.
RECURSIVE Total(_, _, _)
Total(ratings, axis, n) ==
  IF n = 0 THEN 0 ELSE ratings[n].position[axis] + Total(ratings, axis, n - 1)

\* C22: the mean position of the rendered activity is null exactly when there
\* is no rating; otherwise each component is the coordinate sum over the
\* rating count, and ratings at (0,0) and (2,2) have the mean (1,1).
C22_MeanPosition ==
  results.pc = "on" =>
    LET n == Len(activity.ratings)
        mean == stats(activity).averagePosition
    IN /\ (mean = Null) <=> (n = 0)
       /\ n > 0 =>
            \A axis \in {"x", "y"} :
              /\ DOMAIN mean[axis] = {"num", "den"}
              /\ mean[axis].den > 0
              /\ mean[axis].num * n = mean[axis].den * Total(activity.ratings, axis, n)
       /\ {activity.ratings[i].position : i \in 1..n} = Positions /\ n = 2
            => mean = [x |-> [num |-> 1, den |-> 1], y |-> [num |-> 1, den |-> 1]]

\* The view shows an activity rated at (0,0) by one user and at (2,2) by the
\* other.
C22_Witness ==
  /\ results.pc = "on"
  /\ Len(activity.ratings) = 2
  /\ activity.ratings[1].position = [x |-> 0, y |-> 0]
  /\ activity.ratings[2].position = [x |-> 2, y |-> 2]
  /\ lastEvent.name = "rating_added"

\* C23: a dot click changes selectedCommentId, and a tap mobilePopupComment,
\* only to the id of a comment of the clicked user that is in
\* visibleCommentIds; a click or tap for a user without such a comment leaves
\* both as they were, and neither touches the other's field.
C23_DotSelectsVisibleOnly ==
  [][lastEvent'.name \in {"handleMapDotClick", "handleMobileMapDotTap"}
     => LET u == results'.lookup.userId
            mine == {activity.comments[i].id : i \in
                       {j \in DOMAIN activity.comments :
                          /\ activity.comments[j].userId = u
                          /\ \E k \in DOMAIN results.visibleCommentIds :
                               results.visibleCommentIds[k] = activity.comments[j].id}}
        IN /\ lastEvent'.name = "handleMapDotClick"
                => /\ results'.mobilePopupComment = results.mobilePopupComment
                   /\ \/ results'.selectedCommentId = results.selectedCommentId
                      \/ results'.selectedCommentId \in mine
           /\ lastEvent'.name = "handleMobileMapDotTap"
                => /\ results'.selectedCommentId = results.selectedCommentId
                   /\ \/ results'.mobilePopupComment = results.mobilePopupComment
                      \/ results'.mobilePopupComment \in mine
           /\ mine = {} => /\ results'.selectedCommentId = results.selectedCommentId
                           /\ results'.mobilePopupComment = results.mobilePopupComment
           /\ results'.visibleCommentIds = results.visibleCommentIds
           /\ activity' = activity]_vars

\* A click on the dot of user "b" has selected "c3", which is rendered.
C23_Witness ==
  /\ results.pc = "on"
  /\ lastEvent = Step("handleMapDotClick", "selected")
  /\ results.lookup.userId = "b"
  /\ results.selectedCommentId = "c3"
  /\ includes(results.visibleCommentIds, "c3")

\* C24: a finished call has returned null when the status was 404 or the
\* parsed body was unsuccessful or without data, has returned the activity of
\* a successful body, and has thrown on any other status outside 200..299 and
\* on a network failure.
C24_ByUrlNameOutcome ==
  call.pc = "done" =>
    LET r == call.response
        answered == r # NetworkFailure
        isOk == answered /\ r.status >= 200 /\ r.status <= 299
        parsed == isOk /\ r.body # Malformed
    IN /\ (answered /\ r.status = 404) => call.outcome = Returned(Null)
       /\ (parsed /\ (~r.body.success \/ r.body.data = Null))
            => call.outcome = Returned(Null)
       /\ (parsed /\ r.body.success /\ r.body.data # Null)
            => call.outcome = Returned(r.body.data)
       /\ (~answered \/ (~isOk /\ r.status # 404))
            => call.outcome.kind = "thrown"

\* A call has ended by throwing on a 500 response.
C24_Witness ==
  /\ call.pc = "done"
  /\ call.response # NetworkFailure
  /\ call.response.status = 500
  /\ call.outcome = Thrown("Failed to fetch activity")

\* C25: resolving a userId to its comment examines at most one entry, however
\* many comments the activity holds.
C25_IndexedLookup ==
  (results.pc = "on" /\ results.lookup # Null) => results.lookup.probes <= 1

\* C31: no two submitComment calls are in flight at once; handleCommentSubmit
\* changes nothing while isSubmitting is true; the step in which the call
\* resolves or rejects leaves isSubmitting false in the mounted view; and
\* once that is rendered, with no call in flight, a submission goes out again.
C31_OneCommentSubmitAtATime ==
  /\ [](page.pc = "on" => page.pending.comment <= 1)
  /\ [][(lastEvent'.name = "handleCommentSubmit" /\ page.isSubmitting)
        => (page' = page /\ activity' = activity /\ lastEvent'.branch = "return")]_vars
  /\ [][(lastEvent'.name \in {"submitCommentResolved", "submitCommentRejected"}
         /\ page.mounted)
        => ~page'.isSubmitting]_vars
  /\ []((page.pc = "on" /\ page.mounted /\ page.pending.comment = 0)
        => ~page.isSubmitting)
  /\ []((/\ page.pc = "on"
         /\ Rendered
         /\ activity.status = "active"
         /\ page.username # ""
         /\ page.pending.comment = 0
         /\ ~page.renderedIsSubmitting)
        => ENABLED (onCommentSubmit("hi") /\ lastEvent'.branch = "submitComment"))

\* A second submission has returned at the guard while the first call is in
\* flight.
C31_Witness ==
  /\ page.pc = "on"
  /\ Rendered
  /\ lastEvent = Step("handleCommentSubmit", "return")
  /\ page.isSubmitting
  /\ page.pending.comment = 1
  /\ userId # ""
  /\ page.username # ""

\* C32: currentScreen is always one of 0, 1, 2, 3; a swipe up adds exactly one
\* below screen 3 and changes nothing at screen 3, a swipe down takes exactly
\* one off above screen 0 and changes nothing at screen 0, whatever the
\* activity holds, and no navigation step touches the activity.
C32_ScreenNavigation ==
  /\ [](nav.pc = "on" => nav.currentScreen \in {0, 1, 2, 3})
  /\ [][lastEvent'.name = "onSwipeUp"
        => IF nav.currentScreen = 3 THEN nav' = nav
           ELSE nav'.currentScreen = nav.currentScreen + 1]_vars
  /\ [][lastEvent'.name = "onSwipeDown"
        => IF nav.currentScreen = 0 THEN nav' = nav
           ELSE nav'.currentScreen = nav.currentScreen - 1]_vars
  /\ [][lastEvent'.name
          \in {"onSwipeUp", "onSwipeDown", "titleArrow", "mappingArrow", "commentArrow"}
        => UNCHANGED viewVars]_vars

\* A swipe up has been refused on the last screen of an activity that has
\* changed since it was loaded.
C32_Witness ==
  /\ nav.pc = "on"
  /\ lastEvent = Step("onSwipeUp", "noop")
  /\ nav.currentScreen = 3
  /\ nav.scrolledTo = "results-screen"
  /\ Len(activity.ratings) = 2

\* The host is the admin subdomain: its first label is the configured admin
\* name, or it is one of the two local admin hosts.
OnAdminSubdomain(host, env) ==
  \/ splitFirst(host, ".") = (IF env # << >> THEN env ELSE DefaultAdminSubdomain)
  \/ host \in {AdminLocalhost, AdminLocalhostPort}

\* The host is localhost itself, with or without a port.
LocalDevelopmentHost(host) == splitFirst(host, ":") = Localhost

\* C33: a request for a path starting with /admin continues exactly when the
\* host is the admin subdomain or localhost without a subdomain, and is
\* answered with 404 on every other host.
C33_AdminOnlyOnAdminHosts ==
  (mw.pc = "on" /\ mw.request # Null /\ startsWith(mw.request.pathname, AdminRoute))
  => IF OnAdminSubdomain(mw.request.host, mw.env) \/ LocalDevelopmentHost(mw.request.host)
     THEN mw.response = Continue
     ELSE mw.response = NotFound

\* C34 as claimed: every request on the admin subdomain for a path that does
\* not start with /admin is redirected to /admin followed by the path, and a
\* followed redirect is not answered with a redirect.
C34_AdminHostRedirects ==
  (mw.pc = "on" /\ mw.request # Null)
  => /\ (/\ OnAdminSubdomain(mw.request.host, mw.env)
         /\ ~startsWith(mw.request.pathname, AdminRoute))
          => mw.response = Redirect(AdminRoute \o mw.request.pathname)
     /\ mw.followed => mw.response.kind # "redirect"

\* C34 amended: every request on the admin subdomain for a path the matcher
\* selects that does not start with /admin is redirected to /admin followed
\* by the path, and a followed redirect is not answered with a redirect.
C34_MatchedAdminHostRedirects ==
  (mw.pc = "on" /\ mw.request # Null)
  => /\ (/\ OnAdminSubdomain(mw.request.host, mw.env)
         /\ matches(mw.request.pathname)
         /\ ~startsWith(mw.request.pathname, AdminRoute))
          => mw.response = Redirect(AdminRoute \o mw.request.pathname)
     /\ mw.followed => mw.response.kind # "redirect"

\* The redirect of /about on admin.example.com has been followed to
\* /admin/about, which is served.
C34_Witness ==
  /\ mw.pc = "on"
  /\ mw.followed
  /\ mw.request.host = <<"a", "d", "m", "i", "n", ".", "e", "x", "a", "m", "p", "l", "e", ".", "c", "o", "m">>
  /\ mw.request.pathname = <<"/", "a", "d", "m", "i", "n", "/", "a", "b", "o", "u", "t">>
  /\ mw.response = Continue
  /\ lastEvent = Step("followRedirect", "next")

====
